---------------------------- MODULE Spec2Model ----------------------------
(***************************************************************************)
(* A model of the reconciliation engine of the Argo CD operator:           *)
(*   - ReconcileArgoCD.Reconcile (finalizer lifecycle, teardown, pipeline)  *)
(*   - ReconcileArgoCD.reconcileResources (the fixed-order stage pipeline)  *)
(*   - deleteSSOPred (the event-time provider handling of the router)       *)
(*   - RepoServerReconciler.reconServiceMonitor (the Diff & Apply primitive)*)
(*   - reconcileRolloutsRoleBinding and the role-binding reconcilers        *)
(*   - reconcileRolloutsRole, reconcileRolloutsDeployment,                  *)
(*     reconcileRolloutsSecrets, deleteServiceMonitor, the server ingresses *)
(*   - Register and applyReconcilerHook (the hook registry)                *)
(*                                                                         *)
(* Nine specifications share the variables:                                 *)
(*   Spec        the orchestrator for one Instance, the cluster, the user,  *)
(*               the context of the invocation and the deprecation tracker  *)
(*   SpecStages  the stage pipeline for one live Instance, stage by stage   *)
(*   SpecDA      the Diff & Apply primitives on one object of each kind     *)
(*   SpecNS      two Instances, their workers and one source namespace      *)
(*   SpecManaged two Instances, their workers and one managed namespace     *)
(*   SpecHooks   goroutines that call Register and applyReconcilerHook      *)
(*   SpecWatch   update events of a watched object and deploymentConfigPred *)
(*   SpecByHand  the lifecycle with a user who takes the finalizer off by   *)
(*               hand                                                       *)
(*   SpecTeardown the lifecycle of the Instance under fairness: the worker  *)
(*               goes on and no teardown step fails for ever                *)
(***************************************************************************)
EXTENDS Naturals, Sequences, FiniteSets

VARIABLES
    cr,          \* the Instance stored in the cluster
    res,         \* the provider (SSO) resources that exist in the cluster
    clusterRes,  \* cluster-scoped resources of the Instance exist
    env,         \* process environment and cached cluster-feature flags
    pc,          \* position of the worker inside Reconcile ("idle" between calls)
    stage,       \* index of the next pipeline stage of reconcileResources (0 outside)
    local,       \* the worker's in-memory copy of the Instance (argocd / cr)
    trace,       \* the calls made by the current (or last) Reconcile invocation
    result,      \* what the last finished invocation returned
    hist,        \* history of the Instance's life, for the lifecycle properties
    ev,          \* what the last Spec.SSO update event did at event time
    ctx,         \* the context passed to the invocation: "live" or
                 \*         "cancelled"
    DeprecationEventEmissionTracker,  \* the package variable: the namespaces
                 \*         that have an entry
    kind,        \* SpecDA: the kind of the managed object that is followed
    obj,         \* SpecDA: the object of that kind stored in the cluster
    inst,        \* SpecDA: the Instance the desired object is built from
    call,        \* SpecDA: the last reconcile call for the object, what it
                 \*         found and what it did
    dirty,       \* SpecDA: the Instance or the object was changed from outside
                 \*         since the last call that succeeded
    nsLabel,     \* SpecNS: the claim label of the source namespace: the
                 \*         Instance it is claimed for, or "none"
    sourceNamespaces,  \* SpecNS: per Instance, Spec.SourceNamespaces lists
                 \*         the source namespace
    ManagedSourceNamespaces,  \* SpecNS: the field of the one ReconcileArgoCD
                 \*         that all workers use
    rbac,        \* SpecNS: per Instance, its RBAC objects exist in the
                 \*         source namespace
    wpc,         \* SpecNS: per Instance, the position of the worker that
                 \*         reconciles it
    managedBy,   \* SpecNS: the managed-by label of the one namespace that
                 \*         may be handed to an Instance: the Instance's
                 \*         namespace, or "none"
    ManagedNamespaces,  \* SpecNS: the field of the one ReconcileArgoCD
                 \*         that all workers use
    roleBinding, \* SpecNS: per Instance, the namespaces in which its role
                 \*         binding exists
    computed,    \* SpecNS: per Instance, the sets that the tracker computed
                 \*         in its worker's invocation
    returned,    \* SpecNS: per Instance, what the last invocation returned
    opt,         \* the optional components the Instance asks for
                 \*         (Spec.ApplicationSet, Spec.Notifications.Enabled)
    compRes,     \* the optional components whose resources exist
    hooks,       \* SpecHooks: the package variable hooks
    mutex,       \* SpecHooks: the goroutine that holds the package variable
                 \*         mutex, or "none"
    thr,         \* SpecHooks: per goroutine, the call it is in and where
    registered,  \* SpecHooks: the hooks handed to Register, in the order in
                 \*         which the calls got the lock
    deploymentConfig,  \* SpecWatch: the watched object stored in the cluster
    updateEvent, \* SpecWatch: the last update event of the object and
                 \*         what deploymentConfigPred did with it
    queued       \* SpecWatch: a reconcile request for the owner of the
                 \*         object is in the work queue

vars == <<cr, res, clusterRes, env, pc, stage, local, trace, result, hist, ev,
          ctx, DeprecationEventEmissionTracker,
          kind, obj, inst, call, dirty,
          nsLabel, sourceNamespaces, ManagedSourceNamespaces, rbac, wpc,
          managedBy, ManagedNamespaces, roleBinding, computed, returned,
          opt, compRes, hooks, mutex, thr, registered,
          deploymentConfig, updateEvent, queued>>

orchVars == <<cr, res, clusterRes, env, pc, stage, local, trace, result, hist, ev>>
daVars == <<kind, obj, inst, call, dirty>>
nsVars == <<nsLabel, sourceNamespaces, ManagedSourceNamespaces, rbac, wpc,
            managedBy, ManagedNamespaces, roleBinding, computed, returned>>

\* What the actions of one part leave alone of the other parts.
optVars == <<opt, compRes>>
invVars == <<ctx, DeprecationEventEmissionTracker>>
hookVars == <<hooks, mutex, thr, registered>>
watchVars == <<deploymentConfig, updateEvent, queued>>
notOrchVars == <<daVars, nsVars, hookVars, watchVars>>
notDAVars == <<orchVars, optVars, invVars, nsVars, hookVars, watchVars>>
notNSVars == <<orchVars, optVars, invVars, daVars, hookVars, watchVars>>
notHookVars == <<orchVars, optVars, invVars, daVars, nsVars, watchVars>>
notWatchVars == <<orchVars, optVars, invVars, daVars, nsVars, hookVars>>

-----------------------------------------------------------------------------
(* Values *)

\* Spec.SSO of the Instance: absent, one provider, or the illegal combination
\* of both providers' configuration.
SSONil == "nil"
SSODex == "dex"
SSOKeycloak == "keycloak"
SSOBoth == "both"
SSOSpecs == {SSONil, SSODex, SSOKeycloak, SSOBoth}

DexRoleBinding == "dex-rolebinding"
DexDeployment == "dex-deployment"
KeycloakDeploymentConfig == "keycloak-deploymentconfig"
DexResources == {DexRoleBinding, DexDeployment}
KeycloakResources == {KeycloakDeploymentConfig}
ProviderResources == DexResources \cup KeycloakResources

\* The stored Instance.  Spec.ApplicationSet and Spec.Notifications.Enabled
\* are not stored: they are whatever the user wrote last, and are drawn
\* where reconcileResources tests them.
NoInstance == [exists |-> FALSE, deleting |-> FALSE, finalizer |-> FALSE,
               sso |-> SSONil]

NoLocal == [deleting |-> FALSE, finalizer |-> FALSE, sso |-> SSONil]

\* What a Get of the stored Instance c returns.
Read(c) == [deleting |-> c.deleting, finalizer |-> c.finalizer, sso |-> c.sso]

NoHist == [everFinalizer |-> FALSE, teardownDone |-> FALSE, removed |-> FALSE]

\* One call of an invocation: what was called and how it ended: "ok", "err",
\* "notfound", or "disabled" for a call that its toggle switched off.
Entry(s, o) == [step |-> s, out |-> o]

\* The calls of a trace that ended with out.
Calls(t, out) == {t[i].step : i \in {j \in 1..Len(t) : t[j].out = out}}
Succeeded(t) == Calls(t, "ok")
Failed(t) == Calls(t, "err") \cup Calls(t, "notfound")


-----------------------------------------------------------------------------
(* Provider state machine *)

\* The resources that belong to the provider a spec requests.
Own(s) == IF s = SSODex THEN DexResources
          ELSE IF s = SSOKeycloak THEN KeycloakResources
          ELSE {}

\* The resources a request for s must not leave behind.
Other(s) == IF s = SSODex THEN KeycloakResources
            ELSE IF s = SSOKeycloak THEN DexResources
            ELSE IF s = SSONil THEN ProviderResources
            ELSE {}

\* The ways one reconcileSSO call can end: the validation error, an API
\* failure while deleting the other provider's resources, an API failure
\* while ensuring the requested ones, or success.
SSOOutcomes(s) == IF s = SSOBoth THEN {"invalid"}
                  ELSE IF s = SSONil THEN {"ok", "failDelete"}
                  ELSE {"ok", "failDelete", "failEnsure"}

\* reconcileSSO: validate, delete the other provider's resources, ensure
\* the requested provider's.  Nothing is rolled back on failure.
reconcileSSO(s, r, o) ==
    IF o = "invalid" \/ o = "failDelete" THEN r
    ELSE IF o = "failEnsure" THEN r \ Other(s)
    ELSE (r \ Other(s)) \cup Own(s)

\* deleteSSOConfiguration(newCR, oldCR): delete the provider resources
\* that exist; a failure leaves them.
deleteSSOConfiguration(r, ok) == IF ok THEN r \ ProviderResources ELSE r

\* Whether the default provider (Dex) is in use for an Instance.
UseDex(s, e) == IF s = SSONil THEN ~e.disableDex ELSE s \in {SSODex, SSOBoth}

\* reconcileRoleBinding that does not test whether Dex is in use.
reconcileRoleBindingDexNotTested(s, e, r) == r \cup {DexRoleBinding}

\* reconcileRoleBinding(dexServer, ...): the Dex role binding is created
\* when Dex is in use and deleted when it is not.
reconcileRoleBinding(s, e, r) ==
    IF UseDex(s, e) THEN r \cup {DexRoleBinding} ELSE r \ {DexRoleBinding}

-----------------------------------------------------------------------------
(* The stage pipeline of reconcileResources *)

\* Stages with the network-exposure objects (services, ingresses, routes)
\* before the workloads (deployments, stateful sets, autoscalers).
StagesNetworkFirst ==
    << "reconcileSSO", "reconcileStatus", "reconcileRoles",
       "reconcileRoleBindings", "reconcileServiceAccounts",
       "reconcileCertificateAuthority", "reconcileSecrets",
       "reconcileConfigMaps", "reconcileServices",
       "reconcileIngresses", "reconcileRoutes",
       "reconcileDeployments", "reconcileStatefulSets",
       "reconcileAutoscalers",
       "reconcilePrometheus", "reconcilePrometheusRule",
       "reconcileMetricsServiceMonitor",
       "reconcileRepoServerServiceMonitor",
       "reconcileServerMetricsServiceMonitor",
       "reconcileApplicationSetController",
       "reconcileNotificationsController",
       "reconcileRepoServerTLSSecret", "reconcileRedisTLSSecret" >>

\* The stages of reconcileResources, in the order of its calls.
Stages == << "reconcileSSO", "reconcileStatus", "reconcileRoles",
             "reconcileRoleBindings", "reconcileServiceAccounts",
             "reconcileCertificateAuthority", "reconcileSecrets",
             "reconcileConfigMaps", "reconcileServices",
             "reconcileDeployments", "reconcileStatefulSets",
             "reconcileAutoscalers", "reconcileIngresses", "reconcileRoutes",
             "reconcilePrometheus", "reconcilePrometheusRule",
             "reconcileMetricsServiceMonitor",
             "reconcileRepoServerServiceMonitor",
             "reconcileServerMetricsServiceMonitor",
             "reconcileApplicationSetController",
             "reconcileNotificationsController",
             "reconcileRepoServerTLSSecret", "reconcileRedisTLSSecret" >>

NStages == Len(Stages)

PrometheusStages == {"reconcilePrometheus", "reconcilePrometheusRule",
                     "reconcileMetricsServiceMonitor",
                     "reconcileRepoServerServiceMonitor",
                     "reconcileServerMetricsServiceMonitor"}

\* The stages whose error is logged and does not end reconcileResources.
LoggedOnly == {"reconcileSSO", "reconcileStatus"}

\* What the gates of reconcileResources test: the cached cluster-feature
\* flags (IsRouteAPIAvailable, IsPrometheusAPIAvailable) and the Instance's
\* optional components (Spec.ApplicationSet != nil,
\* Spec.Notifications.Enabled).
Toggles == [routeAPI : BOOLEAN, prometheusAPI : BOOLEAN,
            appset : BOOLEAN, notifications : BOOLEAN]

\* The optional components, and what an Instance may ask for.
ApplicationSet == "applicationset"
Notifications == "notifications"
Components == {ApplicationSet, Notifications}
Options == [appset : BOOLEAN, notifications : BOOLEAN]
NoOptions == [appset |-> FALSE, notifications |-> FALSE]

\* What a run may find at its gates for an Instance with options o: the
\* cluster-feature flags are whatever the cache holds at that moment.
TogglesOf(o) ==
    {f \in Toggles : f.appset = o.appset /\ f.notifications = o.notifications}

\* The condition under which reconcileResources calls a stage.
Gate(name, f) ==
    IF name = "reconcileRoutes" THEN f.routeAPI
    ELSE IF name \in PrometheusStages THEN f.prometheusAPI
    ELSE IF name = "reconcileApplicationSetController" THEN f.appset
    ELSE IF name = "reconcileNotificationsController" THEN f.notifications
    ELSE TRUE

\* The first stage after stage i that reconcileResources calls
\* (NStages + 1 when there is none).
RECURSIVE NextStage(_, _)
NextStage(i, f) ==
    IF i + 1 > NStages THEN NStages + 1
    ELSE IF Gate(Stages[i + 1], f) THEN i + 1
    ELSE NextStage(i + 1, f)

-----------------------------------------------------------------------------
(* ReconcileArgoCD.Reconcile *)

\* The namespace of the Instance (argocd.Namespace), and the namespaces
\* that may have an entry in the tracker.
Namespace == "argocd"
TrackedNamespaces == {Namespace, "other"}

\* The tracker clean-up that drops no entry.
deleteTrackedNothing(tracker, namespace) == tracker

\* The tracker clean-up of Reconcile: the entry of the namespace is
\* deleted if there is one.
deleteTracked(tracker, namespace) ==
    IF namespace \in tracker THEN tracker \ {namespace} ELSE tracker

\* addDeletionFinalizer / removeDeletionFinalizer: the finalizer is put on
\* (taken off) the Instance and the Instance is written back.
addDeletionFinalizer(c) == [c EXCEPT !.finalizer = TRUE]

\* removeDeletionFinalizer that writes the Instance back as it was.
removeDeletionFinalizerKept(c) == c

removeDeletionFinalizer(c) == [c EXCEPT !.finalizer = FALSE]

\* deleteClusterResources: the cluster-scoped resources of the Instance,
\* which no owner reference can collect, are deleted.
deleteClusterResources(c) == FALSE

\* How an invocation ends: Reconcile returns r.  "done" is the instant of the
\* return, where the invocation's calls and result can still be seen.
Return(r) == /\ pc' = "done"
             /\ stage' = 0
             /\ result' = r

\* FetchResult without the IsNotFound test: every failed Get is returned.
FetchResultAllErrors(out) == "err"

\* What Reconcile returns when the first Get fails: an Instance that is not
\* found is gone and nothing is to be done, any other error is returned.
FetchResult(out) == IF out = "notfound" THEN "ok" ELSE "err"

\* AfterFetch with the finalizer taken off a deleting Instance right away.
AfterFetchNoTeardown(c) ==
    IF c.deleting
    THEN IF c.finalizer THEN "removeDeletionFinalizer" ELSE "return"
    ELSE IF c.finalizer THEN "refetch" ELSE "addDeletionFinalizer"

\* AfterFetch without the step that adds the finalizer.
AfterFetchNoFinalizer(c) ==
    IF c.deleting
    THEN IF c.finalizer THEN "deleteClusterResources" ELSE "return"
    ELSE "refetch"

\* AfterFetch with the deletion branch taken only when the finalizer is
\* there: a deleting Instance without it is reconciled like a live one.
AfterFetchNoDeletionCheck(c) ==
    IF c.deleting /\ c.finalizer THEN "deleteClusterResources"
    ELSE IF c.finalizer THEN "refetch" ELSE "addDeletionFinalizer"

\* Where Reconcile goes with the Instance c it fetched: teardown for a
\* deleting Instance that has the finalizer, return for a deleting Instance
\* that has none, else the finalizer is added when it is missing.
AfterFetch(c) ==
    IF c.deleting
    THEN IF c.finalizer THEN "deleteClusterResources" ELSE "return"
    ELSE IF c.finalizer THEN "refetch" ELSE "addDeletionFinalizer"

\* The tests Reconcile makes on the Instance c it fetched, as calls.
FetchTests(c) ==
    << Entry("Get", "ok"),
       Entry("GetDeletionTimestamp", IF c.deleting THEN "set" ELSE "unset") >>

\* r.Client.Get of the Instance, and the branch on what was fetched.
Fetch ==
    /\ pc = "idle"
    /\ \E out \in {"ok", "err"} :
         IF out = "err"
         THEN /\ trace' = << Entry("Get", "err") >>
              /\ Return(FetchResult("err"))
              /\ UNCHANGED local
         ELSE IF ~cr.exists
         THEN /\ trace' = << Entry("Get", "notfound") >>
              /\ Return(FetchResult("notfound"))
              /\ UNCHANGED local
         ELSE /\ trace' = FetchTests(cr)
              /\ local' = Read(cr)
              /\ IF AfterFetch(Read(cr)) = "return"
                 THEN Return("ok")
                 ELSE /\ pc' = AfterFetch(Read(cr))
                      /\ UNCHANGED <<stage, result>>
    /\ ev' = IF ev = "during" THEN "none" ELSE ev
    /\ UNCHANGED <<cr, res, clusterRes, env, hist>>
    /\ UNCHANGED <<optVars, invVars, notOrchVars>>

\* The worker takes the next request, with a context of its own: the last
\* invocation is forgotten.
Finish ==
    /\ pc = "done"
    /\ pc' = "idle"
    /\ local' = NoLocal
    /\ trace' = << >>
    /\ result' = "none"
    /\ ctx' = "live"
    /\ UNCHANGED <<cr, res, clusterRes, env, stage, hist, ev>>
    /\ UNCHANGED <<optVars, DeprecationEventEmissionTracker, notOrchVars>>

\* DeleteClusterResources with its error logged and not returned.
DeleteClusterResourcesLogOnly ==
    /\ pc = "deleteClusterResources"
    /\ \E ok \in BOOLEAN :
         /\ clusterRes' = IF ok THEN FALSE ELSE clusterRes
         /\ trace' = Append(trace, Entry("deleteClusterResources",
                                         IF ok THEN "ok" ELSE "err"))
         /\ pc' = "removeManagedByLabelFromNamespaces"
    /\ UNCHANGED <<cr, res, env, stage, result, local, hist, ev>>
    /\ UNCHANGED <<optVars, invVars, notOrchVars>>

\* r.deleteClusterResources(argocd), and on success the test of
\* isRemoveManagedByLabelOnArgoCDDeletion(), which reads the environment
DeleteClusterResources ==
    /\ pc = "deleteClusterResources"
    /\ \E ok \in BOOLEAN :
         IF ok
         THEN /\ clusterRes' = deleteClusterResources(clusterRes)
              /\ \E enabled \in BOOLEAN :
                   IF enabled
                   THEN /\ trace' = Append(trace,
                               Entry("deleteClusterResources", "ok"))
                        /\ pc' = "removeManagedByLabelFromNamespaces"
                   ELSE /\ trace' = Append(Append(trace,
                               Entry("deleteClusterResources", "ok")),
                               Entry("removeManagedByLabelFromNamespaces",
                                     "disabled"))
                        /\ pc' = "removeUnmanagedSourceNamespaceResources"
              /\ UNCHANGED <<stage, result>>
         ELSE /\ trace' = Append(trace, Entry("deleteClusterResources", "err"))
              /\ Return("err")
              /\ UNCHANGED clusterRes
    /\ UNCHANGED <<cr, res, env, local, hist, ev>>
    /\ UNCHANGED <<optVars, invVars, notOrchVars>>

\* r.removeManagedByLabelFromNamespaces(argocd.Namespace), called when
\* isRemoveManagedByLabelOnArgoCDDeletion()
RemoveManagedByLabelFromNamespaces ==
    /\ pc = "removeManagedByLabelFromNamespaces"
    /\ \E ok \in BOOLEAN :
         IF ok
         THEN /\ trace' = Append(trace,
                     Entry("removeManagedByLabelFromNamespaces", "ok"))
              /\ pc' = "removeUnmanagedSourceNamespaceResources"
              /\ UNCHANGED <<stage, result>>
         ELSE /\ trace' = Append(trace,
                     Entry("removeManagedByLabelFromNamespaces", "err"))
              /\ Return("err")
    /\ UNCHANGED <<cr, res, clusterRes, env, local, hist, ev>>
    /\ UNCHANGED <<optVars, invVars, notOrchVars>>

\* r.removeUnmanagedSourceNamespaceResources(argocd)
RemoveUnmanagedSourceNamespaceResources ==
    /\ pc = "removeUnmanagedSourceNamespaceResources"
    /\ \E ok \in BOOLEAN :
         IF ok
         THEN /\ trace' = Append(trace,
                     Entry("removeUnmanagedSourceNamespaceResources", "ok"))
              /\ pc' = "removeDeletionFinalizer"
              /\ hist' = [hist EXCEPT !.teardownDone = TRUE]
              /\ UNCHANGED <<stage, result>>
         ELSE /\ trace' = Append(trace,
                     Entry("removeUnmanagedSourceNamespaceResources", "err"))
              /\ Return("err")
              /\ UNCHANGED hist
    /\ UNCHANGED <<cr, res, clusterRes, env, local, ev>>
    /\ UNCHANGED <<optVars, invVars, notOrchVars>>

\* r.removeDeletionFinalizer(argocd), then the tracker clean-up and return
RemoveDeletionFinalizer ==
    /\ pc = "removeDeletionFinalizer"
    /\ \E ok \in BOOLEAN :
         IF ok /\ cr.exists
         THEN /\ cr' = removeDeletionFinalizer(cr)
              /\ DeprecationEventEmissionTracker' =
                    deleteTracked(DeprecationEventEmissionTracker, Namespace)
              /\ trace' = Append(trace, Entry("removeDeletionFinalizer", "ok"))
              /\ Return("ok")
         ELSE /\ trace' = Append(trace, Entry("removeDeletionFinalizer", "err"))
              /\ Return("err")
              /\ UNCHANGED <<cr, DeprecationEventEmissionTracker>>
    /\ UNCHANGED <<res, clusterRes, env, local, hist, ev>>
    /\ UNCHANGED <<optVars, ctx, notOrchVars>>

\* r.addDeletionFinalizer(argocd): the cluster refuses a new finalizer on an
\* object that is gone or is being deleted.
AddDeletionFinalizer ==
    /\ pc = "addDeletionFinalizer"
    /\ \E ok \in BOOLEAN :
         IF ok /\ cr.exists /\ ~cr.deleting
         THEN /\ cr' = addDeletionFinalizer(cr)
              /\ hist' = [hist EXCEPT !.everFinalizer = TRUE]
              /\ trace' = Append(trace, Entry("addDeletionFinalizer", "ok"))
              /\ pc' = "refetch"
              /\ UNCHANGED <<stage, result>>
         ELSE /\ trace' = Append(trace, Entry("addDeletionFinalizer", "err"))
              /\ Return("err")
              /\ UNCHANGED <<cr, hist>>
    /\ UNCHANGED <<res, clusterRes, env, local, ev>>
    /\ UNCHANGED <<optVars, invVars, notOrchVars>>

\* Refetch that takes an Instance that is gone as the first Get does:
\* nothing to do, success.
RefetchNotFoundIsSuccess ==
    /\ pc = "refetch"
    /\ \E ok \in BOOLEAN :
         IF ok /\ cr.exists /\ ctx = "live"
         THEN /\ local' = Read(cr)
              /\ trace' = Append(trace, Entry("Get", "ok"))
              /\ pc' = "setManagedNamespaces"
              /\ UNCHANGED <<stage, result>>
         ELSE /\ trace' = Append(trace,
                     Entry("Get", IF cr.exists THEN "err" ELSE "notfound"))
              /\ Return(IF cr.exists THEN "err" ELSE "ok")
              /\ UNCHANGED local
    /\ UNCHANGED <<cr, res, clusterRes, env, hist, ev>>
    /\ UNCHANGED <<optVars, invVars, notOrchVars>>

\* The second r.Client.Get(ctx, ...): the latest version of the Instance.
\* With a cancelled context the Get fails.
Refetch ==
    /\ pc = "refetch"
    /\ \E ok \in BOOLEAN :
         IF ok /\ cr.exists /\ ctx = "live"
         THEN /\ local' = Read(cr)
              /\ trace' = Append(trace, Entry("Get", "ok"))
              /\ pc' = "setManagedNamespaces"
              /\ UNCHANGED <<stage, result>>
         ELSE /\ trace' = Append(trace,
                     Entry("Get", IF cr.exists THEN "err" ELSE "notfound"))
              /\ Return("err")
              /\ UNCHANGED local
    /\ UNCHANGED <<cr, res, clusterRes, env, hist, ev>>
    /\ UNCHANGED <<optVars, invVars, notOrchVars>>

\* r.setManagedNamespaces(argocd)
SetManagedNamespaces ==
    /\ pc = "setManagedNamespaces"
    /\ \E ok \in BOOLEAN :
         IF ok
         THEN /\ trace' = Append(trace, Entry("setManagedNamespaces", "ok"))
              /\ pc' = "setManagedSourceNamespaces"
              /\ UNCHANGED <<stage, result>>
         ELSE /\ trace' = Append(trace, Entry("setManagedNamespaces", "err"))
              /\ Return("err")
    /\ UNCHANGED <<cr, res, clusterRes, env, local, hist, ev>>
    /\ UNCHANGED <<optVars, invVars, notOrchVars>>

\* r.setManagedSourceNamespaces(argocd); on success reconcileResources starts
SetManagedSourceNamespaces ==
    /\ pc = "setManagedSourceNamespaces"
    /\ \E ok \in BOOLEAN :
         IF ok
         THEN /\ trace' = Append(trace,
                     Entry("setManagedSourceNamespaces", "ok"))
              /\ pc' = "reconcileResources"
              /\ stage' = 1
              /\ UNCHANGED result
         ELSE /\ trace' = Append(trace,
                     Entry("setManagedSourceNamespaces", "err"))
              /\ Return("err")
    /\ UNCHANGED <<cr, res, clusterRes, env, local, hist, ev>>
    /\ UNCHANGED <<optVars, invVars, notOrchVars>>

-----------------------------------------------------------------------------
(* ReconcileArgoCD.reconcileResources, one action per kind of stage *)

\* After stage i: the next stage that is called, or the end of the pipeline
\* and of the invocation, which then returns success.  A cluster-feature
\* flag is drawn where its gate is met; the Prometheus stages share one test.
Advance(i) ==
    \E f \in TogglesOf(opt) :
      /\ Stages[i] \in PrometheusStages => f.prometheusAPI
      /\ IF NextStage(i, f) > NStages
         THEN Return("ok")
         ELSE /\ stage' = NextStage(i, f)
              /\ UNCHANGED <<pc, result>>

\* What a stage that succeeded did to the provider resources.
StageProviderEffect(name, l, e, r) ==
    IF name = "reconcileRoleBindings" THEN reconcileRoleBinding(l.sso, e, r)
    ELSE r

\* What a stage that succeeded did to the optional components' resources.
StageComponentEffect(name, c) ==
    IF name = "reconcileApplicationSetController" THEN c \cup {ApplicationSet}
    ELSE IF name = "reconcileNotificationsController" THEN c \cup {Notifications}
    ELSE c

\* What a stage that succeeded did to the cluster-scoped resources.
StageClusterEffect(name, c) ==
    IF name = "reconcileRoles" THEN TRUE ELSE c

\* ReconcileSSOStage with the error of reconcileSSO returned.
ReconcileSSOStageReturnsError ==
    /\ pc = "reconcileResources"
    /\ stage \in 1..NStages
    /\ Stages[stage] = "reconcileSSO"
    /\ \E o \in SSOOutcomes(local.sso) :
         /\ res' = reconcileSSO(local.sso, res, o)
         /\ trace' = Append(trace,
                Entry("reconcileSSO", IF o = "ok" THEN "ok" ELSE "err"))
         /\ IF o = "ok" THEN Advance(stage) ELSE Return("err")
    /\ UNCHANGED <<cr, clusterRes, env, local, hist, ev>>
    /\ UNCHANGED <<optVars, invVars, notOrchVars>>

\* ReconcileSSOStage with the error of reconcileSSO dropped, not logged.
ReconcileSSOStageErrorDropped ==
    /\ pc = "reconcileResources"
    /\ stage \in 1..NStages
    /\ Stages[stage] = "reconcileSSO"
    /\ \E o \in SSOOutcomes(local.sso) :
         /\ res' = reconcileSSO(local.sso, res, o)
         /\ trace' = Append(trace, Entry("reconcileSSO", "ok"))
    /\ Advance(stage)
    /\ UNCHANGED <<cr, clusterRes, env, local, hist, ev>>
    /\ UNCHANGED <<optVars, invVars, notOrchVars>>

\* reconcileSSO(cr): an error is logged and the pipeline goes on.
ReconcileSSOStage ==
    /\ pc = "reconcileResources"
    /\ stage \in 1..NStages
    /\ Stages[stage] = "reconcileSSO"
    /\ \E o \in SSOOutcomes(local.sso) :
         /\ res' = reconcileSSO(local.sso, res, o)
         /\ trace' = Append(trace,
                Entry("reconcileSSO", IF o = "ok" THEN "ok" ELSE "err"))
    /\ Advance(stage)
    /\ UNCHANGED <<cr, clusterRes, env, local, hist, ev>>
    /\ UNCHANGED <<optVars, invVars, notOrchVars>>

\* ReconcileStatusStage with the error of reconcileStatus returned.
ReconcileStatusStageReturnsError ==
    /\ pc = "reconcileResources"
    /\ stage \in 1..NStages
    /\ Stages[stage] = "reconcileStatus"
    /\ \E ok \in BOOLEAN :
         /\ trace' = Append(trace,
                Entry("reconcileStatus", IF ok THEN "ok" ELSE "err"))
         /\ IF ok THEN Advance(stage) ELSE Return("err")
    /\ UNCHANGED <<cr, res, clusterRes, env, local, hist, ev>>
    /\ UNCHANGED <<optVars, invVars, notOrchVars>>

\* reconcileStatus(cr): an error is logged and the pipeline goes on.
ReconcileStatusStage ==
    /\ pc = "reconcileResources"
    /\ stage \in 1..NStages
    /\ Stages[stage] = "reconcileStatus"
    /\ \E ok \in BOOLEAN :
         trace' = Append(trace,
             Entry("reconcileStatus", IF ok THEN "ok" ELSE "err"))
    /\ Advance(stage)
    /\ UNCHANGED <<cr, res, clusterRes, env, local, hist, ev>>
    /\ UNCHANGED <<optVars, invVars, notOrchVars>>

\* ReconcileStageIn with the error of a stage of the monitoring block
\* logged and not returned.
ReconcileStageInMonitoringLogOnly(S) ==
    /\ pc = "reconcileResources"
    /\ stage \in S
    /\ Stages[stage] \notin LoggedOnly
    /\ \E ok \in BOOLEAN :
         IF ok
         THEN /\ res' = StageProviderEffect(Stages[stage], local, env, res)
              /\ clusterRes' = StageClusterEffect(Stages[stage], clusterRes)
              /\ compRes' = StageComponentEffect(Stages[stage], compRes)
              /\ trace' = Append(trace, Entry(Stages[stage], "ok"))
              /\ Advance(stage)
         ELSE /\ trace' = Append(trace, Entry(Stages[stage], "err"))
              /\ IF Stages[stage] \in PrometheusStages
                 THEN Advance(stage) ELSE Return("err")
              /\ UNCHANGED <<res, clusterRes, compRes>>
    /\ UNCHANGED <<cr, env, local, hist, ev>>
    /\ UNCHANGED <<opt, invVars, notOrchVars>>

\* ReconcileStageIn with the error of the stage logged and not returned.
ReconcileStageInLogOnly(S) ==
    /\ pc = "reconcileResources"
    /\ stage \in S
    /\ Stages[stage] \notin LoggedOnly
    /\ \E ok \in BOOLEAN :
         IF ok
         THEN /\ res' = StageProviderEffect(Stages[stage], local, env, res)
              /\ clusterRes' = StageClusterEffect(Stages[stage], clusterRes)
              /\ compRes' = StageComponentEffect(Stages[stage], compRes)
              /\ trace' = Append(trace, Entry(Stages[stage], "ok"))
         ELSE /\ trace' = Append(trace, Entry(Stages[stage], "err"))
              /\ UNCHANGED <<res, clusterRes, compRes>>
    /\ Advance(stage)
    /\ UNCHANGED <<cr, env, local, hist, ev>>
    /\ UNCHANGED <<opt, invVars, notOrchVars>>

\* Every other stage, for the stages in S: an error is returned and ends
\* the invocation.
ReconcileStageIn(S) ==
    /\ pc = "reconcileResources"
    /\ stage \in S
    /\ Stages[stage] \notin LoggedOnly
    /\ \E ok \in BOOLEAN :
         IF ok
         THEN /\ res' = StageProviderEffect(Stages[stage], local, env, res)
              /\ clusterRes' = StageClusterEffect(Stages[stage], clusterRes)
              /\ compRes' = StageComponentEffect(Stages[stage], compRes)
              /\ trace' = Append(trace, Entry(Stages[stage], "ok"))
              /\ Advance(stage)
         ELSE /\ trace' = Append(trace, Entry(Stages[stage], "err"))
              /\ Return("err")
              /\ UNCHANGED <<res, clusterRes, compRes>>
    /\ UNCHANGED <<cr, env, local, hist, ev>>
    /\ UNCHANGED <<opt, invVars, notOrchVars>>

\* The last stage that reads or writes what the user and the router change
\* (the Instance, the provider resources, the cluster-scoped resources).
LastSharedStage == CHOOSE i \in 1..NStages : Stages[i] = "reconcileRoleBindings"

\* Stage by stage, the whole pipeline (specification SpecStages).
ReconcileStage == ReconcileStageIn(1..NStages)

\* Stage by stage up to the last shared stage (specification Spec).
ReconcileSharedStage == ReconcileStageIn(1..LastSharedStage)

\* The stages after the last shared stage, in one step (specification Spec,
\* whose Instance asks for no optional component, so that these stages leave
\* the components' resources alone): they end with the first error among
\* them, or all succeed.
ReconcileRemainingStages ==
    /\ pc = "reconcileResources"
    /\ stage \in (LastSharedStage + 1)..NStages
    /\ \E ok \in BOOLEAN :
         /\ trace' = Append(trace,
                Entry("remainingStages", IF ok THEN "ok" ELSE "err"))
         /\ Return(IF ok THEN "ok" ELSE "err")
    /\ UNCHANGED <<cr, res, clusterRes, env, local, hist, ev>>
    /\ UNCHANGED <<optVars, invVars, notOrchVars>>

-----------------------------------------------------------------------------
(* The user, the cluster and the event router *)

\* The world outside the worker acts between any two calls of an invocation
\* up to the last shared stage, and between invocations.  An event that
\* comes while a later stage runs changes nothing that stage or its
\* successors use: it is taken as coming right after the return.
Outside == /\ pc # "done"
           /\ pc = "reconcileResources" => stage <= LastSharedStage

\* The context of the running invocation is cancelled.
Cancel ==
    /\ pc \notin {"idle", "done"}
    /\ ctx = "live"
    /\ ctx' = "cancelled"
    /\ UNCHANGED orchVars
    /\ UNCHANGED <<optVars, DeprecationEventEmissionTracker, notOrchVars>>

\* A deprecation event is emitted for an Instance of the namespace n, which
\* gets an entry in the tracker.
TrackDeprecationEvent ==
    /\ Outside
    /\ \E n \in TrackedNamespaces \ DeprecationEventEmissionTracker :
         DeprecationEventEmissionTracker' =
            DeprecationEventEmissionTracker \cup {n}
    /\ UNCHANGED orchVars
    /\ UNCHANGED <<optVars, ctx, notOrchVars>>

\* The user creates the Instance.
CreateInstance ==
    /\ Outside
    /\ ~cr.exists
    /\ \E s \in SSOSpecs :
         cr' = [exists |-> TRUE, deleting |-> FALSE, finalizer |-> FALSE,
                sso |-> s]
    /\ hist' = NoHist
    /\ ev' = "none"
    /\ UNCHANGED <<res, clusterRes, env, pc, stage, local, trace, result>>
    /\ UNCHANGED <<optVars, invVars, notOrchVars>>

\* The user asks for the deletion of the Instance: the cluster sets the
\* deletion timestamp.
RequestDeletion ==
    /\ Outside
    /\ cr.exists
    /\ ~cr.deleting
    /\ cr' = [cr EXCEPT !.deleting = TRUE]
    /\ UNCHANGED <<res, clusterRes, env, pc, stage, local, trace, result, hist, ev>>
    /\ UNCHANGED <<optVars, invVars, notOrchVars>>

\* The cluster removes a deleting Instance that has no finalizer left, and
\* garbage-collects the namespaced resources it owns.
ClusterRemove ==
    /\ Outside
    /\ cr.exists
    /\ cr.deleting
    /\ ~cr.finalizer
    /\ cr' = NoInstance
    /\ res' = {}
    /\ hist' = [hist EXCEPT !.removed = TRUE]
    /\ UNCHANGED <<clusterRes, env, pc, stage, local, trace, result, ev>>
    /\ UNCHANGED <<optVars, invVars, notOrchVars>>

\* What the event says about itself: "during" when it came while an
\* invocation was running, else what the callback did.
EventKind(what) == IF pc # "idle" THEN "during" ELSE what

\* deleteSSOPred with reconcileSSO called on the old Instance where the
\* provider section was removed.
deleteSSOPredReconcilesOld ==
    /\ Outside
    /\ cr.exists
    /\ \E new \in SSOSpecs \ {cr.sso} :
         /\ cr' = [cr EXCEPT !.sso = new]
         /\ IF new = SSONil
            THEN \E o \in SSOOutcomes(cr.sso) :
                   /\ res' = reconcileSSO(cr.sso, res, o)
                   /\ ev' = EventKind(IF o = "ok" THEN "removed"
                                      ELSE "removeFailed")
            ELSE IF cr.sso # SSONil
            THEN \E o \in SSOOutcomes(new) :
                   /\ res' = reconcileSSO(new, res, o)
                   /\ ev' = EventKind(IF o = "ok" THEN "switched"
                                      ELSE "switchFailed")
            ELSE /\ res' = res
                 /\ ev' = EventKind("added")
    /\ UNCHANGED <<clusterRes, env, pc, stage, local, trace, result, hist>>
    /\ UNCHANGED <<optVars, invVars, notOrchVars>>

\* deleteSSOPred.UpdateFunc on an update of the Instance that changes
\* Spec.SSO: the provider resources are deleted when the section was
\* removed, reconcileSSO runs when one section replaced another; errors are
\* logged and the update is passed on to Reconcile.
deleteSSOPred ==
    /\ Outside
    /\ cr.exists
    /\ \E new \in SSOSpecs \ {cr.sso} :
         /\ cr' = [cr EXCEPT !.sso = new]
         /\ IF new = SSONil
            THEN \E ok \in BOOLEAN :
                   /\ res' = deleteSSOConfiguration(res, ok)
                   /\ ev' = EventKind(IF ok THEN "removed" ELSE "removeFailed")
            ELSE IF cr.sso # SSONil
            THEN \E o \in SSOOutcomes(new) :
                   /\ res' = reconcileSSO(new, res, o)
                   /\ ev' = EventKind(IF o = "ok" THEN "switched"
                                      ELSE "switchFailed")
            ELSE /\ res' = res
                 /\ ev' = EventKind("added")
    /\ UNCHANGED <<clusterRes, env, pc, stage, local, trace, result, hist>>
    /\ UNCHANGED <<optVars, invVars, notOrchVars>>

-----------------------------------------------------------------------------
(* The orchestrator's specification *)

\* The operator's environment: DISABLE_DEX.
Envs == [disableDex : BOOLEAN]

\* The Instances of the source-namespace part, by their namespaces.
TwoInstances == {"a", "b"}

\* The one source namespace that the Instances may list.
SourceNamespace == "ns"

\* The namespace that may carry the managed-by label of an Instance.
ManagedNamespace == "newTestNamespace"

\* What the tracker of an invocation has computed: nothing yet.
NotComputed == [managed |-> {}, source |-> {}]

\* The goroutines that use the hook registry.
Goroutines == {"g1", "g2"}

\* A goroutine that is in no call of the registry.
NoHookCall == [pc |-> "idle", op |-> "none", h |-> << >>, args |-> "none",
               seen |-> << >>, reg |-> << >>, ranged |-> << >>,
               log |-> << >>, ret |-> "none"]

\* The hook registry as the package is loaded (hooks.go 9-12), nobody
\* calling it.
HooksIdle ==
    /\ hooks = << >>
    /\ mutex = "none"
    /\ thr = [g \in Goroutines |-> NoHookCall]
    /\ registered = << >>

\* No update event of a watched object was delivered.
NoEvent == [old |-> 0, new |-> 0, result |-> FALSE, handled |-> "none",
            delivered |-> FALSE]

\* The watch part is at rest.
WatchIdle ==
    /\ deploymentConfig = [type |-> "none", name |-> "none",
                           availableReplicas |-> 0]
    /\ updateEvent = NoEvent
    /\ queued = FALSE

\* No invocation was cancelled, and the tracker is empty as the package is
\* loaded.
InvIdle ==
    /\ ctx = "live"
    /\ DeprecationEventEmissionTracker = {}

\* An Instance without optional components, and none of their resources.
OptIdle ==
    /\ opt = NoOptions
    /\ compRes = {}

\* The source-namespace part is at rest.
NSIdle ==
    /\ nsLabel = "none"
    /\ sourceNamespaces = [i \in TwoInstances |-> FALSE]
    /\ ManagedSourceNamespaces = {}
    /\ rbac = [i \in TwoInstances |-> FALSE]
    /\ wpc = [i \in TwoInstances |-> "idle"]
    /\ managedBy = "none"
    /\ ManagedNamespaces = {}
    /\ roleBinding = [i \in TwoInstances |-> {}]
    /\ computed = [i \in TwoInstances |-> NotComputed]
    /\ returned = [i \in TwoInstances |-> "none"]

\* No reconcile call for the object was made yet.
NoCall == [kind |-> "none", did |-> "none", err |-> FALSE, before |-> FALSE,
           clean |-> FALSE, differed |-> FALSE, built |-> FALSE,
           got |-> FALSE, error |-> << >>, prometheus |-> "unread"]

\* The Diff & Apply part is at rest.
DAIdle ==
    /\ kind = "none"
    /\ obj = [exists |-> FALSE]
    /\ inst = "none"
    /\ call = NoCall
    /\ dirty = FALSE

Init ==
    /\ cr = NoInstance
    /\ res = {}
    /\ clusterRes = FALSE
    /\ env \in Envs
    /\ pc = "idle"
    /\ stage = 0
    /\ local = NoLocal
    /\ trace = << >>
    /\ result = "none"
    /\ hist = NoHist
    /\ ev = "none"
    /\ InvIdle
    /\ DAIdle
    /\ NSIdle
    /\ OptIdle
    /\ HooksIdle
    /\ WatchIdle

Next ==
    \/ Fetch
    \/ Finish
    \/ DeleteClusterResources
    \/ RemoveManagedByLabelFromNamespaces
    \/ RemoveUnmanagedSourceNamespaceResources
    \/ RemoveDeletionFinalizer
    \/ AddDeletionFinalizer
    \/ Refetch
    \/ SetManagedNamespaces
    \/ SetManagedSourceNamespaces
    \/ ReconcileSSOStage
    \/ ReconcileStatusStage
    \/ ReconcileSharedStage
    \/ ReconcileRemainingStages
    \/ CreateInstance
    \/ RequestDeletion
    \/ ClusterRemove
    \/ deleteSSOPred
    \/ Cancel
    \/ TrackDeprecationEvent

Spec == Init /\ [][Next]_vars

\* Somebody takes the finalizer off the Instance by hand (a patch of
\* metadata.finalizers), which lets the cluster remove a deleting Instance
\* whatever the operator is doing.
RemoveFinalizerByHand ==
    /\ Outside
    /\ cr.exists
    /\ cr.finalizer
    /\ cr' = removeDeletionFinalizer(cr)
    /\ UNCHANGED <<res, clusterRes, env, pc, stage, local, trace, result, hist, ev>>
    /\ UNCHANGED <<optVars, invVars, notOrchVars>>

\* The orchestrator with a user who creates and deletes the Instance; the
\* context stays live and the spec of the Instance is not updated.
NextLifecycle ==
    \/ Fetch
    \/ Finish
    \/ DeleteClusterResources
    \/ RemoveManagedByLabelFromNamespaces
    \/ RemoveUnmanagedSourceNamespaceResources
    \/ RemoveDeletionFinalizer
    \/ AddDeletionFinalizer
    \/ Refetch
    \/ SetManagedNamespaces
    \/ SetManagedSourceNamespaces
    \/ ReconcileSSOStage
    \/ ReconcileStatusStage
    \/ ReconcileSharedStage
    \/ ReconcileRemainingStages
    \/ CreateInstance
    \/ RequestDeletion
    \/ ClusterRemove

\* The same with a user who may also patch the finalizer away.
NextByHand ==
    \/ NextLifecycle
    \/ RemoveFinalizerByHand

SpecByHand == Init /\ [][NextByHand]_vars

\* The worker goes on: an invocation that began runs to its return, the
\* worker takes the next request (the work queue hands a request back after
\* an invocation that returned an error, and every event of the Instance
\* puts one in), and no call of an invocation is stuck.
WorkerGoesOn ==
    /\ WF_vars(Fetch)
    /\ WF_vars(Finish)
    /\ WF_vars(AddDeletionFinalizer)
    /\ WF_vars(Refetch)
    /\ WF_vars(SetManagedNamespaces)
    /\ WF_vars(SetManagedSourceNamespaces)
    /\ WF_vars(ReconcileSSOStage)
    /\ WF_vars(ReconcileStatusStage)
    /\ WF_vars(ReconcileSharedStage)
    /\ WF_vars(ReconcileRemainingStages)

\* The call at the position of the worker went through: the invocation
\* goes on, or returns success.
Succeeds == pc' # "done" \/ result' = "ok"

\* No call of teardown fails for ever: the first Get and each teardown
\* step succeed in the end when they are tried again and again.
TeardownStepsSucceedInTheEnd ==
    /\ SF_vars(Fetch /\ Succeeds)
    /\ SF_vars(DeleteClusterResources /\ Succeeds)
    /\ SF_vars(RemoveManagedByLabelFromNamespaces /\ Succeeds)
    /\ SF_vars(RemoveUnmanagedSourceNamespaceResources /\ Succeeds)
    /\ SF_vars(RemoveDeletionFinalizer /\ Succeeds)

\* The lifecycle of the Instance with a worker that goes on and teardown
\* steps that succeed in the end.
SpecTeardown ==
    /\ Init
    /\ [][NextLifecycle]_vars
    /\ WorkerGoesOn
    /\ TeardownStepsSucceedInTheEnd

-----------------------------------------------------------------------------
(* The pipeline's specification: one live Instance whose optional          *)
(* components the user switches on and off between invocations, every      *)
(* stage of reconcileResources taken one by one.                           *)

\* deleteNotificationsResources(newCR): the resources of the notifications
\* controller are deleted; a failure leaves them.
deleteNotificationsResources(c, ok) == IF ok THEN c \ {Notifications} ELSE c

\* deleteNotificationsPred.UpdateFunc on an update of the Instance that
\* changes Spec.Notifications.Enabled, between two invocations: the
\* resources are deleted when the component was switched off; an error is
\* logged and the update is passed on to Reconcile.
deleteNotificationsPred ==
    /\ pc = "idle"
    /\ cr.exists
    /\ opt' = [opt EXCEPT !.notifications = ~opt.notifications]
    /\ IF opt.notifications
       THEN \E ok \in BOOLEAN :
              compRes' = deleteNotificationsResources(compRes, ok)
       ELSE compRes' = compRes
    /\ UNCHANGED orchVars
    /\ UNCHANGED <<invVars, notOrchVars>>

\* The user puts Spec.ApplicationSet on the Instance or takes it off,
\* between two invocations: no predicate acts on that.
UpdateApplicationSet ==
    /\ pc = "idle"
    /\ cr.exists
    /\ opt' = [opt EXCEPT !.appset = ~opt.appset]
    /\ UNCHANGED compRes
    /\ UNCHANGED orchVars
    /\ UNCHANGED <<invVars, notOrchVars>>

InitStages ==
    /\ cr \in [exists : {TRUE}, deleting : {FALSE}, finalizer : BOOLEAN,
                sso : SSOSpecs]
    /\ res = {}
    /\ clusterRes = FALSE
    /\ env \in Envs
    /\ pc = "idle"
    /\ stage = 0
    /\ local = NoLocal
    /\ trace = << >>
    /\ result = "none"
    /\ hist = [NoHist EXCEPT !.everFinalizer = cr.finalizer]
    /\ ev = "none"
    /\ InvIdle
    /\ opt \in Options
    /\ compRes \in SUBSET Components
    /\ DAIdle
    /\ NSIdle
    /\ HooksIdle
    /\ WatchIdle

NextStages ==
    \/ Fetch
    \/ Finish
    \/ AddDeletionFinalizer
    \/ Refetch
    \/ SetManagedNamespaces
    \/ SetManagedSourceNamespaces
    \/ ReconcileSSOStage
    \/ ReconcileStatusStage
    \/ ReconcileStage
    \/ deleteNotificationsPred
    \/ UpdateApplicationSet

SpecStages == InitStages /\ [][NextStages]_vars

-----------------------------------------------------------------------------
(* Diff & Apply: reconServiceMonitor and the role-binding reconcilers *)

Kinds == {"ServiceMonitor", "RoleBinding", "ClusterRoleBinding",
          "RolloutsRoleBinding"}

\* The kinds of object of the Rollouts component that are modelled.
RolloutsKinds == {"RolloutsRole", "RolloutsDeployment", "RolloutsSecret"}

AllKinds == Kinds \cup RolloutsKinds

\* The ingresses of the server component.
IngressKinds == {"ServerIngress", "ServerGRPCIngress"}

\* Spec.Server.Ingress (Spec.Server.GRPC.Ingress for the gRPC ingress) of
\* an Instance: the toggle, the class name ("nil" for none) and the
\* annotations.
IngressSpecs == [enabled : BOOLEAN,
                 ingressClassName : {"nginx", "nil"},
                 annotations : {"none", "example.com=test"}]

\* The Instances a server reconciler may be working for.
IngressInstances == [name : {"argocd"}, ingress : IngressSpecs]

\* The Instances a reconciler may be working for.
Instances == {"argocd", "argocd-2"}

\* The Instances reconcileRolloutsService may be working for: the name and
\* whether Spec.Rollouts is nil.
RolloutsInstances == [name : Instances, rollouts : {"nil", "set"}]

NoObject == [exists |-> FALSE]

\* The ServiceMonitor request of reconcileMetriscServiceMonitor for
\* Instance i, and the object RequestServiceMonitor builds from it.
DesiredServiceMonitor(i) ==
    [exists |-> TRUE,
     labels |-> [partOf |-> i, component |-> "repo-server"],
     spec |-> [selector |-> "repo-server", port |-> "metrics"],
     annotations |-> "none",
     owner |-> "none"]

\* The role binding of kind k for Instance i: newRoleBindingWithname with
\* the role reference and the subjects the reconciler sets.
DesiredBinding(k, i) ==
    [exists |-> TRUE,
     roleRef |-> [kind |-> IF k = "ClusterRoleBinding" THEN "ClusterRole"
                           ELSE "Role",
                  name |-> <<i, k>>],
     subjects |-> << [kind |-> "ServiceAccount", name |-> <<i, k>>] >>,
     annotations |-> "none",
     owner |-> "none"]

\* The role of the Rollouts controller for Instance i: newRole with the
\* policy rules.
DesiredRole(i) ==
    [exists |-> TRUE,
     rules |-> <<"argoproj.io", "apps", "core">>,
     annotations |-> "none",
     owner |-> "none"]

\* The deployment of the Rollouts controller for Instance i.
DesiredDeployment(i) ==
    [exists |-> TRUE,
     containers |-> << [name |-> "argo-rollouts", image |-> i] >>,
     serviceAccountName |-> "argo-rollouts",
     labels |-> [partOf |-> i, name |-> "argo-rollouts"],
     selector |-> <<i, "argo-rollouts-controller">>,
     annotations |-> "none",
     owner |-> "none"]

\* The notification secret of the Rollouts controller.
DesiredSecret(i) ==
    [exists |-> TRUE,
     type |-> "Opaque",
     annotations |-> "none",
     owner |-> "none"]

\* The Service of the Rollouts controller that reconcileRolloutsService
\* builds for Instance i.
DesiredService(i) ==
    [exists |-> TRUE,
     ports |-> <<"metrics", 8090>>,
     selector |-> <<i.name, "argo-rollouts">>,
     annotations |-> "none",
     owner |-> "none"]

\* The Services of the Redis component: reconcileService and
\* reconcileHAProxyService.
RedisServiceKinds == {"RedisService", "RedisHAProxyService"}

\* The metadata that the API server sets on an object it stores and that a
\* request built by the operator does not carry: resource version, UID,
\* creation timestamp.
NotAssigned == [resourceVersion |-> "", uid |-> "", creationTimestamp |-> ""]
ServerAssigned == [resourceVersion |-> "assigned", uid |-> "assigned",
                   creationTimestamp |-> "assigned"]

\* The Service that the Redis reconciler of Instance i requests for kind k.
DesiredRedisService(k, i) ==
    [exists |-> TRUE,
     labels |-> [partOf |-> i, component |-> "redis"],
     annotations |-> "none",
     owner |-> "none",
     serverManaged |-> NotAssigned,
     spec |-> IF k = "RedisService"
              THEN [selector |-> "argocd-redis", port |-> "tcp-redis"]
              ELSE [selector |-> "argocd-redis-ha-haproxy",
                    port |-> "haproxy"]]

\* The ingress of the server component for Instance i.
DesiredIngress(i) ==
    [exists |-> TRUE,
     ingressClassName |-> i.ingress.ingressClassName,
     annotations |-> i.ingress.annotations,
     owner |-> "none"]

Desired(k, i) ==
    CASE k = "ServiceMonitor" -> DesiredServiceMonitor(i)
      [] k \in IngressKinds -> DesiredIngress(i)
      [] k = "RolloutsRole" -> DesiredRole(i)
      [] k = "RolloutsDeployment" -> DesiredDeployment(i)
      [] k = "RolloutsSecret" -> DesiredSecret(i)
      [] k = "RolloutsService" -> DesiredService(i)
      [] k \in RedisServiceKinds -> DesiredRedisService(k, i)
      [] OTHER -> DesiredBinding(k, i)

\* The fields of an object of kind k that its reconciler compares.
ComparedFields(k) ==
    CASE k = "ServiceMonitor" -> {"labels", "spec"}
      [] k = "RolloutsRole" -> {"rules"}
      [] k = "RolloutsDeployment" ->
            {"containers", "serviceAccountName", "labels", "selector"}
      [] k \in {"RolloutsSecret", "RolloutsService"} -> {}
      [] k \in IngressKinds -> {"ingressClassName", "annotations"}
      [] k \in RedisServiceKinds ->
            {"labels", "annotations", "owner", "serverManaged", "spec"}
      [] OTHER -> {"roleRef", "subjects"}

\* Objects e and d of kind k differ in a compared field.
Differ(k, e, d) == \E f \in ComparedFields(k) : e[f] # d[f]

\* argocdcommon.UpdateIfChanged: each compared field of existing that
\* differs from desired takes the desired value, and changed is set.
UpdateIfChanged(existing, desired, fields) ==
    [changed |-> \E f \in fields : existing[f] # desired[f],
     obj |-> [f \in DOMAIN existing |->
                 IF f \in fields THEN desired[f] ELSE existing[f]]]

\* How the calls of one reconcile call end: building the desired object
\* (request), controllerutil.SetControllerReference (owner), the fetch of
\* the existing object (get; not-found is no failure) and the write.
APIOutcomes == [request : BOOLEAN, owner : BOOLEAN, get : BOOLEAN,
                write : BOOLEAN]

\* Error values: the messages from the outermost wrapper to the cause; nil
\* is the empty sequence.
Nil == << >>
MutationError == <<"mutation">>
APIError == <<"api">>

\* errors.Wrapf that hands back the error it was given.
WrapfReturnsCause(err, msg) == err

\* errors.Wrapf(err, msg): a new error with the message, whose cause is err.
Wrapf(err, msg) == <<msg>> \o err

Cause(err) == IF err = Nil THEN Nil ELSE <<err[Len(err)]>>

\* controllerutil.SetControllerReference(owner, o, scheme); ok says whether
\* it succeeded.
SetControllerReference(owner, o, ok) ==
    IF ok THEN [o EXCEPT !.owner = owner] ELSE o

\* What a reconcile call did: the object it left, the write it made
\* ("create", "update", "delete", "none"), whether it returned an error,
\* and the error.
Did(o, d, e) == [obj |-> o, did |-> d, err |-> e,
                 error |-> IF e THEN APIError ELSE Nil]

\* A reconcile call that made no write and returned error.
DidNot(o, error) == [obj |-> o, did |-> "none", err |-> TRUE, error |-> error]

\* reconServiceMonitor going on to Get, Create and Update with the object
\* that RequestServiceMonitor handed back with its error.
reconServiceMonitorRequestErrorIgnored(rsr, existing, desired, ignoreDrift, api) ==
    IF ~api.get THEN Did(existing, "none", TRUE)
    ELSE IF ~existing.exists
    THEN IF api.write THEN Did(desired, "create", ~api.request)
         ELSE Did(existing, "none", TRUE)
    ELSE IF ignoreDrift THEN Did(existing, "none", ~api.request)
    ELSE LET u == UpdateIfChanged(existing, desired,
                      ComparedFields("ServiceMonitor"))
         IN IF ~u.changed THEN Did(existing, "none", ~api.request)
            ELSE IF api.write THEN Did(u.obj, "update", ~api.request)
            ELSE Did(existing, "none", TRUE)

\* reconServiceMonitor without the test of changed: found objects are
\* always updated.
reconServiceMonitorNoChangedTest(rsr, existing, desired, ignoreDrift, api) ==
    IF ~api.request \/ ~api.get THEN Did(existing, "none", TRUE)
    ELSE IF ~existing.exists
    THEN IF api.write THEN Did(desired, "create", FALSE)
         ELSE Did(existing, "none", TRUE)
    ELSE IF ignoreDrift THEN Did(existing, "none", FALSE)
    ELSE IF api.write
         THEN Did(UpdateIfChanged(existing, desired,
                      ComparedFields("ServiceMonitor")).obj, "update", FALSE)
         ELSE Did(existing, "none", TRUE)

\* RepoServerReconciler.reconServiceMonitor for the reconciler of Instance
\* rsr: an error of RequestServiceMonitor is wrapped and returned; a failure
\* of SetControllerReference is logged; then Get, and Create or Update.
reconServiceMonitor(rsr, existing, desired, ignoreDrift, api) ==
    IF ~api.request
    THEN DidNot(existing, Wrapf(MutationError,
                   "reconcileServiceMonitor: failed to request ServiceMonitor"))
    ELSE LET owned == SetControllerReference(rsr, desired, api.owner)
         IN IF ~api.get
            THEN DidNot(existing, Wrapf(APIError,
                   "reconcileServiceMonitor: failed to retrieve ServiceMonitor"))
            ELSE IF ~existing.exists
            THEN IF api.write THEN Did(owned, "create", FALSE)
                 ELSE DidNot(existing, Wrapf(APIError,
                   "reconcileServiceMonitor: failed to create ServiceMonitor"))
            ELSE IF ignoreDrift THEN Did(existing, "none", FALSE)
            ELSE LET u == UpdateIfChanged(existing, owned,
                              ComparedFields("ServiceMonitor"))
                 IN IF ~u.changed THEN Did(existing, "none", FALSE)
                    ELSE IF api.write THEN Did(u.obj, "update", FALSE)
                    ELSE DidNot(existing, Wrapf(APIError,
                   "reconcileServiceMonitor: failed to update ServiceMonitor"))

\* The ObjectMeta of a Service.
ObjectMeta(o) == [labels |-> o.labels, annotations |-> o.annotations,
                  ownerReferences |-> o.owner,
                  serverManaged |-> o.serverManaged]

\* RedisReconciler.reconcileService for the reconciler of Instance rr, and
\* reconcileHAProxyService, which has the same statements: an error of
\* RequestService is wrapped and returned; a failure of
\* SetControllerReference is logged; then Get, and Create or Update. The
\* fields compared are the whole ObjectMeta and the Spec, and they are
\* handed to UpdateIfChanged as values, so that what it copies does not
\* reach existingSvc, the object that UpdateService sends; panics says
\* whether UpdateIfChanged panics on a field that is no pointer.
reconcileService(rr, existing, request, panics, api) ==
    IF ~api.request
    THEN DidNot(existing, Wrapf(MutationError, "failed to request service"))
    ELSE LET desiredSvc == SetControllerReference(rr, request, api.owner)
         IN IF ~api.get
            THEN DidNot(existing, Wrapf(APIError, "failed to retrieve service"))
            ELSE IF ~existing.exists
            THEN IF api.write
                 THEN Did([desiredSvc EXCEPT !.serverManaged = ServerAssigned],
                          "create", FALSE)
                 ELSE DidNot(existing,
                             Wrapf(APIError, "failed to create service"))
            ELSE LET svcChanged ==
                       UpdateIfChanged(
                          [ObjectMeta |-> ObjectMeta(existing),
                           Spec |-> existing.spec],
                          [ObjectMeta |-> ObjectMeta(desiredSvc),
                           Spec |-> desiredSvc.spec],
                          {"ObjectMeta", "Spec"}).changed
                 IN IF ~svcChanged THEN Did(existing, "none", FALSE)
                    ELSE IF panics
                    THEN DidNot(existing, <<"panic: reflect.Value.Elem">>)
                    ELSE IF api.write THEN Did(existing, "update", FALSE)
                    ELSE DidNot(existing,
                                Wrapf(APIError, "failed to update service"))

\* reconcileMetriscServiceMonitor with ignoreDrift set.
reconcileMetriscServiceMonitorIgnoreDrift(existing, i, api) ==
    reconServiceMonitor(i, existing, DesiredServiceMonitor(i), TRUE, api)

\* RepoServerReconciler.reconcileMetriscServiceMonitor: labels and spec are
\* compared, drift is not ignored.
reconcileMetriscServiceMonitor(existing, i, api) ==
    reconServiceMonitor(i, existing, DesiredServiceMonitor(i), FALSE, api)

\* ReconcileArgoCD.reconcileRolloutsRoleBinding for Instance cr: the role
\* reference and the subjects are set on the binding that was found, or on
\* a new one, the owner reference is set (its failure is returned), and the
\* binding is updated, or created.
reconcileRolloutsRoleBinding(cr_, existing, desired, api) ==
    IF ~api.get
    THEN DidNot(existing, <<"failed to get the rolebinding", "api">>)
    ELSE IF ~api.owner THEN DidNot(existing, <<"owner">>)
    ELSE IF existing.exists
    THEN IF api.write
         THEN Did([existing EXCEPT !.roleRef = desired.roleRef,
                                   !.subjects = desired.subjects,
                                   !.owner = cr_],
                  "update", FALSE)
         ELSE Did(existing, "none", TRUE)
    ELSE IF api.write
         THEN Did(SetControllerReference(cr_, desired, TRUE), "create", FALSE)
         ELSE Did(existing, "none", TRUE)

\* reconcileRoleBinding and reconcileClusterRoleBinding for a binding of
\* kind k: Diff & Apply on the role reference and the subjects.
reconcileBinding(k, existing, desired, api) ==
    IF ~api.get THEN Did(existing, "none", TRUE)
    ELSE IF ~existing.exists
    THEN IF api.write THEN Did(desired, "create", FALSE)
         ELSE Did(existing, "none", TRUE)
    ELSE LET u == UpdateIfChanged(existing, desired, ComparedFields(k))
         IN IF ~u.changed THEN Did(existing, "none", FALSE)
            ELSE IF api.write THEN Did(u.obj, "update", FALSE)
            ELSE Did(existing, "none", TRUE)

\* ReconcileArgoCD.reconcileRolloutsRole for Instance cr: a fetch that fails
\* is returned; a role that is not there is created with its owner
\* reference; a role that is there gets the rules and the owner reference
\* and is updated.
reconcileRolloutsRole(cr_, existing, desired, api) ==
    IF ~api.get
    THEN DidNot(existing, <<"failed to reconcile the role", "api">>)
    ELSE IF ~api.owner THEN DidNot(existing, <<"owner">>)
    ELSE IF ~existing.exists
    THEN IF api.write
         THEN Did(SetControllerReference(cr_, desired, TRUE), "create", FALSE)
         ELSE Did(existing, "none", TRUE)
    ELSE IF api.write
         THEN Did([existing EXCEPT !.rules = desired.rules, !.owner = cr_],
                  "update", FALSE)
         ELSE Did(existing, "none", TRUE)

\* argoutil.IsObjectFound: the answers it may give. It returns a bool and
\* no error, so after a fetch that failed it says found or not found.
IsObjectFound(existing, get) == IF get THEN {existing.exists} ELSE BOOLEAN

\* reflect.DeepEqual(existingSpec.Containers[0], podSpec.Containers): a
\* Container and a slice of Containers are values of different types, which
\* are never deeply equal.
DeepEqualContainerAndSlice(c, cs) == FALSE

\* The deployments differ, as reconcileRolloutsDeployment computes it.
deploymentsDifferent(existing, deploy) ==
    \/ ~DeepEqualContainerAndSlice(existing.containers[1], deploy.containers)
    \/ existing.serviceAccountName # deploy.serviceAccountName
    \/ existing.labels # deploy.labels
    \/ existing.selector # deploy.selector

\* ReconcileArgoCD.reconcileRolloutsDeployment for Instance cr, found being
\* the answer of IsObjectFound. After a fetch that failed the object in
\* hand is the one newDeploymentWithSuffix built, which has no container:
\* Containers[0] panics.
reconcileRolloutsDeployment(cr_, existing, deploy, found, api) ==
    IF found
    THEN IF ~api.get \/ ~existing.exists
         THEN DidNot(existing, <<"panic: index out of range">>)
         ELSE IF deploymentsDifferent(existing, deploy)
         THEN IF api.write
              THEN Did([existing EXCEPT
                          !.containers = deploy.containers,
                          !.serviceAccountName = deploy.serviceAccountName,
                          !.labels = deploy.labels,
                          !.selector = deploy.selector],
                       "update", FALSE)
              ELSE Did(existing, "none", TRUE)
         ELSE Did(existing, "none", FALSE)
    ELSE IF ~api.owner THEN DidNot(existing, <<"owner">>)
    ELSE IF api.write /\ ~existing.exists
         THEN Did(SetControllerReference(cr_, deploy, TRUE), "create", FALSE)
         ELSE Did(existing, "none", TRUE)

\* ReconcileArgoCD.reconcileRolloutsSecrets, found being the answer of
\* IsObjectFound: nothing is done for a secret that was found; one that
\* was not is created as it was built, with no owner reference.
reconcileRolloutsSecrets(existing, secret, found, api) ==
    IF found THEN Did(existing, "none", FALSE)
    ELSE IF api.write /\ ~existing.exists
         THEN Did(secret, "create", FALSE)
         ELSE Did(existing, "none", TRUE)

\* The outcomes of the calls reconcileRolloutsService makes to remove the
\* Service: FetchObject and Delete.
DeleteOutcomes == [fetch : BOOLEAN, delete : BOOLEAN]

\* ReconcileArgoCD.reconcileRolloutsService, found being the answer of
\* IsObjectFound. With Spec.Rollouts nil a Service that was found is
\* fetched and deleted; the function then goes on, as it does when no
\* Service was found, to build the Service, set the owner reference and
\* create it. With Spec.Rollouts set a Service that was found is left.
reconcileRolloutsService(cr_, existing, svc, found, del, api) ==
    LET disabled == cr_.rollouts = "nil"
        deleted == disabled /\ found
        left == IF deleted THEN NoObject ELSE existing
        wrote == IF deleted THEN "delete" ELSE "none"
    IN IF deleted /\ ~(existing.exists /\ del.fetch)
       THEN DidNot(existing, APIError)
       ELSE IF deleted /\ ~del.delete THEN DidNot(existing, APIError)
       ELSE IF ~disabled /\ found THEN Did(existing, "none", FALSE)
       ELSE IF ~api.owner
       THEN [obj |-> left, did |-> wrote, err |-> TRUE, error |-> <<"owner">>]
       ELSE IF api.write /\ ~left.exists
       THEN Did(SetControllerReference(cr_.name, svc, TRUE),
                IF deleted THEN "delete, create" ELSE "create", FALSE)
       ELSE Did(left, wrote, TRUE)

\* reconcileIngress that leaves the ingress of a disabled toggle alone.
reconcileIngressNoDelete(existing, i, api) ==
    IF ~api.get THEN Did(existing, "none", TRUE)
    ELSE IF ~i.ingress.enabled THEN Did(existing, "none", FALSE)
    ELSE IF ~api.request \/ ~api.owner THEN Did(existing, "none", TRUE)
    ELSE IF ~existing.exists
    THEN IF api.write
         THEN Did(SetControllerReference(i.name, DesiredIngress(i), TRUE),
                  "create", FALSE)
         ELSE Did(existing, "none", TRUE)
    ELSE LET u == UpdateIfChanged(existing, DesiredIngress(i),
                      {"ingressClassName", "annotations"})
         IN IF ~u.changed THEN Did(existing, "none", FALSE)
            ELSE IF api.write THEN Did(u.obj, "update", FALSE)
            ELSE Did(existing, "none", TRUE)

\* ServerReconciler.reconcileServerIngress and reconcileServerGRPCIngress
\* for Instance i: with the toggle off the ingress is deleted if it is
\* there; with the toggle on, Diff & Apply on the class name and the
\* annotations.
reconcileIngress(existing, i, api) ==
    IF ~api.get THEN Did(existing, "none", TRUE)
    ELSE IF ~i.ingress.enabled
    THEN IF ~existing.exists THEN Did(existing, "none", FALSE)
         ELSE IF api.write THEN Did(NoObject, "delete", FALSE)
         ELSE Did(existing, "none", TRUE)
    ELSE IF ~api.request \/ ~api.owner THEN Did(existing, "none", TRUE)
    ELSE IF ~existing.exists
    THEN IF api.write
         THEN Did(SetControllerReference(i.name, DesiredIngress(i), TRUE),
                  "create", FALSE)
         ELSE Did(existing, "none", TRUE)
    ELSE LET u == UpdateIfChanged(existing, DesiredIngress(i),
                      {"ingressClassName", "annotations"})
         IN IF ~u.changed THEN Did(existing, "none", FALSE)
            ELSE IF api.write THEN Did(u.obj, "update", FALSE)
            ELSE Did(existing, "none", TRUE)

\* deleteServiceMonitor that does not look at the Prometheus flag.
deleteServiceMonitorFlagNotRead(existing, available, ok) ==
    IF ~ok
    THEN DidNot(existing, Wrapf(APIError,
                   "deleteServiceMonitor: failed to delete service monitor"))
    ELSE IF ~existing.exists THEN Did(existing, "none", FALSE)
    ELSE Did(NoObject, "delete", FALSE)

\* RepoServerReconciler.deleteServiceMonitor: available is the answer of
\* monitoring.IsPrometheusAPIAvailable, ok says whether the delete call
\* reached the API server and was served (not-found included).
deleteServiceMonitor(existing, available, ok) ==
    IF ~available THEN Did(existing, "none", FALSE)
    ELSE IF ~ok
    THEN DidNot(existing, Wrapf(APIError,
                   "deleteServiceMonitor: failed to delete service monitor"))
    ELSE IF ~existing.exists THEN Did(existing, "none", FALSE)
    ELSE Did(NoObject, "delete", FALSE)

\* One reconcile call for the object of kind k that ended as r; built says
\* whether the desired object was built (with its mutations applied), got
\* whether the fetch of the existing object went through.
DAStep(k, r, built, got) ==
    /\ obj' = r.obj
    /\ call' = [kind |-> k, did |-> r.did, err |-> r.err,
                before |-> obj.exists, clean |-> ~dirty,
                differed |-> obj.exists /\ Differ(k, obj, Desired(k, inst)),
                built |-> built, got |-> got, error |-> r.error,
                prometheus |-> "unread"]
    /\ dirty' = (r.err /\ dirty)
    /\ UNCHANGED <<kind, inst>>
    /\ UNCHANGED notDAVars

ReconcileMetricsServiceMonitor ==
    /\ kind = "ServiceMonitor"
    /\ \E api \in APIOutcomes :
         DAStep(kind, reconcileMetriscServiceMonitor(obj, inst, api),
                 api.request, api.get)

\* One call of deleteServiceMonitor for the ServiceMonitor of the Instance.
DeleteMetricsServiceMonitor ==
    /\ kind = "ServiceMonitor"
    /\ \E available, ok \in BOOLEAN :
         LET r == deleteServiceMonitor(obj, available, ok)
         IN /\ obj' = r.obj
            /\ call' = [kind |-> "deleteServiceMonitor", did |-> r.did,
                        err |-> r.err, before |-> obj.exists,
                        clean |-> ~dirty, differed |-> FALSE,
                        built |-> FALSE, got |-> ok, error |-> r.error,
                        prometheus |-> IF available THEN "available"
                                       ELSE "unavailable"]
            /\ dirty' = (dirty \/ r.did = "delete")
    /\ UNCHANGED <<kind, inst>>
    /\ UNCHANGED notDAVars

ReconcileRolloutsRoleBinding ==
    /\ kind = "RolloutsRoleBinding"
    /\ \E api \in APIOutcomes :
         DAStep(kind, reconcileRolloutsRoleBinding(inst, obj,
                                                    Desired(kind, inst), api),
                 TRUE, api.get)

ReconcileRolloutsRole ==
    /\ kind = "RolloutsRole"
    /\ \E api \in APIOutcomes :
         DAStep(kind, reconcileRolloutsRole(inst, obj, Desired(kind, inst),
                                             api),
                 TRUE, api.get)

ReconcileRolloutsDeployment ==
    /\ kind = "RolloutsDeployment"
    /\ \E api \in APIOutcomes : \E found \in IsObjectFound(obj, api.get) :
         DAStep(kind, reconcileRolloutsDeployment(inst, obj,
                          Desired(kind, inst), found, api),
                 TRUE, api.get)

ReconcileRolloutsSecrets ==
    /\ kind = "RolloutsSecret"
    /\ \E api \in APIOutcomes : \E found \in IsObjectFound(obj, api.get) :
         DAStep(kind, reconcileRolloutsSecrets(obj, Desired(kind, inst),
                                                found, api),
                 TRUE, api.get)

ReconcileRolloutsService ==
    /\ kind = "RolloutsService"
    /\ \E api \in APIOutcomes : \E found \in IsObjectFound(obj, api.get) :
         \E del \in DeleteOutcomes :
           DAStep(kind, reconcileRolloutsService(inst, obj,
                            Desired(kind, inst), found, del, api),
                   TRUE, api.get)

\* The call of the Redis service reconciler of the kind at hand whose API
\* calls end as api says.
RedisServiceCall(panics, api) ==
    DAStep(kind, reconcileService(inst, obj, Desired(kind, inst), panics, api),
            api.request, api.get)

ReconcileRedisService ==
    /\ kind = "RedisService"
    /\ \E api \in APIOutcomes : \E panics \in BOOLEAN :
         RedisServiceCall(panics, api)

ReconcileRedisHAProxyService ==
    /\ kind = "RedisHAProxyService"
    /\ \E api \in APIOutcomes : \E panics \in BOOLEAN :
         RedisServiceCall(panics, api)

ReconcileServerIngress ==
    /\ kind = "ServerIngress"
    /\ \E api \in APIOutcomes :
         DAStep(kind, reconcileIngress(obj, inst, api), TRUE, api.get)

ReconcileServerGRPCIngress ==
    /\ kind = "ServerGRPCIngress"
    /\ \E api \in APIOutcomes :
         DAStep(kind, reconcileIngress(obj, inst, api), TRUE, api.get)

ReconcileRoleBinding ==
    /\ kind = "RoleBinding"
    /\ \E api \in APIOutcomes :
         DAStep(kind, reconcileBinding(kind, obj, Desired(kind, inst), api),
                 TRUE, api.get)

ReconcileClusterRoleBinding ==
    /\ kind = "ClusterRoleBinding"
    /\ \E api \in APIOutcomes :
         DAStep(kind, reconcileBinding(kind, obj, Desired(kind, inst), api),
                 TRUE, api.get)

\* The values somebody outside the operator may give a field of the object.
FieldValues(k, f) ==
    IF f = "annotations" THEN {"none", "user"}
    ELSE IF f = "ports" THEN {<<"metrics", 8090>>, <<"http", 80>>}
    ELSE IF k = "RolloutsService"
    THEN {Desired(k, i)[f] : i \in RolloutsInstances}
    ELSE IF k \in RedisServiceKinds /\ f = "spec"
    THEN {Desired(k, "argocd")[f],
          [selector |-> "somebody-else", port |-> "tcp-redis"]}
    ELSE IF f = "ingressClassName" THEN {"nginx", "nil", "traefik"}
    ELSE IF f = "rules" THEN {Desired(k, "argocd")[f], <<"core">>}
    ELSE IF f = "type" THEN {"Opaque", "kubernetes.io/tls"}
    ELSE IF f = "serviceAccountName" THEN {"argo-rollouts", "default"}
    ELSE {Desired(k, i)[f] : i \in Instances}
            \cup {Desired(k, "somebody-else")[f]}

\* Somebody changes one field of the stored object.
Drift ==
    /\ kind \in AllKinds \cup IngressKinds \cup {"RolloutsService"}
                 \cup RedisServiceKinds
    /\ obj.exists
    /\ \E f \in DOMAIN obj \ {"exists", "owner", "serverManaged"} :
         \E v \in FieldValues(kind, f) \ {obj[f]} :
           obj' = [obj EXCEPT ![f] = v]
    /\ dirty' = TRUE
    /\ UNCHANGED <<kind, inst, call>>
    /\ UNCHANGED notDAVars

\* Somebody deletes the stored object.
ExternalDelete ==
    /\ kind \in AllKinds \cup IngressKinds \cup {"RolloutsService"}
                 \cup RedisServiceKinds
    /\ obj.exists
    /\ obj' = NoObject
    /\ dirty' = TRUE
    /\ UNCHANGED <<kind, inst, call>>
    /\ UNCHANGED notDAVars

\* The reconciler is handed another Instance.
ChangeInstance ==
    /\ kind \in AllKinds \cup RedisServiceKinds
    /\ \E i \in Instances \ {inst} : inst' = i
    /\ dirty' = TRUE
    /\ UNCHANGED <<kind, obj, call>>
    /\ UNCHANGED notDAVars

\* The user sets or removes Spec.Rollouts, or the reconciler is handed
\* another Instance.
ChangeRolloutsSpec ==
    /\ kind = "RolloutsService"
    /\ \E i \in RolloutsInstances \ {inst} : inst' = i
    /\ dirty' = TRUE
    /\ UNCHANGED <<kind, obj, call>>
    /\ UNCHANGED notDAVars

\* The user changes Spec.Server.Ingress of the Instance.
ChangeIngressSpec ==
    /\ kind \in IngressKinds
    /\ \E i \in IngressInstances \ {inst} : inst' = i
    /\ dirty' = TRUE
    /\ UNCHANGED <<kind, obj, call>>
    /\ UNCHANGED notDAVars

InitDA ==
    /\ cr = NoInstance
    /\ res = {}
    /\ clusterRes = FALSE
    /\ env \in Envs
    /\ pc = "idle"
    /\ stage = 0
    /\ local = NoLocal
    /\ trace = << >>
    /\ result = "none"
    /\ hist = NoHist
    /\ ev = "none"
    /\ InvIdle
    /\ kind \in AllKinds \cup IngressKinds \cup {"RolloutsService"}
                 \cup RedisServiceKinds
    /\ obj = NoObject
    /\ inst \in IF kind \in IngressKinds THEN IngressInstances
               ELSE IF kind = "RolloutsService" THEN RolloutsInstances
               ELSE Instances
    /\ call = NoCall
    /\ dirty = FALSE
    /\ NSIdle
    /\ OptIdle
    /\ HooksIdle
    /\ WatchIdle

NextDA ==
    \/ ReconcileMetricsServiceMonitor
    \/ DeleteMetricsServiceMonitor
    \/ ReconcileRolloutsRoleBinding
    \/ ReconcileRolloutsRole
    \/ ReconcileRolloutsDeployment
    \/ ReconcileRolloutsSecrets
    \/ ReconcileRolloutsService
    \/ ChangeRolloutsSpec
    \/ ReconcileRedisService
    \/ ReconcileRedisHAProxyService
    \/ ReconcileRoleBinding
    \/ ReconcileClusterRoleBinding
    \/ ReconcileServerIngress
    \/ ReconcileServerGRPCIngress
    \/ ChangeIngressSpec
    \/ Drift
    \/ ExternalDelete
    \/ ChangeInstance

SpecDA == InitDA /\ [][NextDA]_vars

-----------------------------------------------------------------------------
(* Source namespaces: two Instances, one worker each, one ReconcileArgoCD *)

\* The claim label after the tracker of Instance i has seen the namespace:
\* an unclaimed namespace that i lists is claimed for i, a namespace claimed
\* for i that i lists no more is released, a claim of another Instance is
\* left alone.
ClaimLabel(i, label, listed) ==
    IF listed /\ label = "none" THEN i
    ELSE IF ~listed /\ label = i THEN "none"
    ELSE label

\* setManagedSourceNamespaces: the namespaces Instance i lists that carry
\* the claim label for i.
setManagedSourceNamespaces(i, label, listed) ==
    IF listed /\ label = i THEN {SourceNamespace} ELSE {}

\* setManagedNamespaces: the Instance's own namespace and the namespaces
\* that carry the managed-by label with the Instance's namespace.
setManagedNamespaces(i, label) ==
    {i} \cup (IF label = i THEN {ManagedNamespace} ELSE {})

\* reconcileRoleBinding: the role binding of the Instance is created in
\* every namespace of the list managed, where it is not there yet.
reconcileRoleBindingIn(managed, bindings) == bindings \cup managed

\* Reconcile up to the computation of the managed namespaces.
BeginReconcileFor(i) ==
    /\ wpc[i] = "idle"
    /\ wpc' = [wpc EXCEPT ![i] = "setManagedNamespaces"]
    /\ returned' = [returned EXCEPT ![i] = "none"]
    /\ UNCHANGED <<nsLabel, sourceNamespaces, ManagedSourceNamespaces, rbac,
                   managedBy, ManagedNamespaces, roleBinding, computed>>
    /\ UNCHANGED notNSVars

\* r.setManagedNamespaces(argocd): the list is stored in the field
\* ManagedNamespaces of the ReconcileArgoCD.
SetManagedNamespacesFor(i) ==
    /\ wpc[i] = "setManagedNamespaces"
    /\ \E ok \in BOOLEAN :
         IF ok
         THEN /\ ManagedNamespaces' = setManagedNamespaces(i, managedBy)
              /\ computed' = [computed EXCEPT
                                ![i].managed = setManagedNamespaces(i, managedBy)]
              /\ wpc' = [wpc EXCEPT ![i] = "setManagedSourceNamespaces"]
              /\ UNCHANGED returned
         ELSE /\ wpc' = [wpc EXCEPT ![i] = "idle"]
              /\ returned' = [returned EXCEPT ![i] = "err"]
              /\ UNCHANGED <<ManagedNamespaces, computed>>
    /\ UNCHANGED <<nsLabel, sourceNamespaces, ManagedSourceNamespaces, rbac,
                   managedBy, roleBinding>>
    /\ UNCHANGED notNSVars

\* r.setManagedSourceNamespaces(argocd): the set is stored in the field
\* ManagedSourceNamespaces of the ReconcileArgoCD; the RBAC objects of a
\* namespace that left the set are deleted.
SetManagedSourceNamespacesFor(i) ==
    /\ wpc[i] = "setManagedSourceNamespaces"
    /\ \E ok \in BOOLEAN :
         IF ok
         THEN LET label == ClaimLabel(i, nsLabel, sourceNamespaces[i])
                  set == setManagedSourceNamespaces(i, label,
                                                    sourceNamespaces[i])
              IN /\ nsLabel' = label
                 /\ ManagedSourceNamespaces' = set
                 /\ computed' = [computed EXCEPT ![i].source = set]
                 /\ rbac' = [rbac EXCEPT ![i] = rbac[i] /\ label = i]
                 /\ wpc' = [wpc EXCEPT ![i] = "reconcileResources"]
                 /\ UNCHANGED returned
         ELSE /\ wpc' = [wpc EXCEPT ![i] = "idle"]
              /\ returned' = [returned EXCEPT ![i] = "err"]
              /\ computed' = [computed EXCEPT ![i] = NotComputed]
              /\ UNCHANGED <<nsLabel, ManagedSourceNamespaces, rbac>>
    /\ UNCHANGED <<sourceNamespaces, managedBy, ManagedNamespaces, roleBinding>>
    /\ UNCHANGED notNSVars

\* r.reconcileResources(argocd): the role binding of the Instance is
\* created in the namespaces of the field ManagedNamespaces, its RBAC
\* objects for source namespaces in those of the field
\* ManagedSourceNamespaces.
ReconcileResourcesFor(i) ==
    /\ wpc[i] = "reconcileResources"
    /\ \E ok \in BOOLEAN :
         /\ rbac' = [rbac EXCEPT ![i] =
                       rbac[i] \/ (ok /\ SourceNamespace \in ManagedSourceNamespaces)]
         /\ roleBinding' = [roleBinding EXCEPT ![i] =
                              IF ok
                              THEN reconcileRoleBindingIn(ManagedNamespaces,
                                                          roleBinding[i])
                              ELSE roleBinding[i]]
         /\ returned' = [returned EXCEPT ![i] = IF ok THEN "ok" ELSE "err"]
    /\ wpc' = [wpc EXCEPT ![i] = "idle"]
    /\ computed' = [computed EXCEPT ![i] = NotComputed]
    /\ UNCHANGED <<nsLabel, sourceNamespaces, ManagedSourceNamespaces,
                   managedBy, ManagedNamespaces>>
    /\ UNCHANGED notNSVars

\* The user of Instance i puts the source namespace on, or takes it off,
\* Spec.SourceNamespaces.
ChangeSourceNamespaces(i) ==
    /\ sourceNamespaces' = [sourceNamespaces EXCEPT ![i] = ~sourceNamespaces[i]]
    /\ UNCHANGED <<nsLabel, ManagedSourceNamespaces, rbac, wpc,
                   managedBy, ManagedNamespaces, roleBinding, computed, returned>>
    /\ UNCHANGED notNSVars

\* Somebody puts the managed-by label on the namespace, with the namespace
\* of an Instance, or takes it off.
ChangeManagedBy ==
    /\ \E l \in (TwoInstances \cup {"none"}) \ {managedBy} : managedBy' = l
    /\ UNCHANGED <<nsLabel, sourceNamespaces, ManagedSourceNamespaces, rbac,
                   wpc, ManagedNamespaces, roleBinding, computed, returned>>
    /\ UNCHANGED notNSVars

InitNS ==
    /\ cr = NoInstance
    /\ res = {}
    /\ clusterRes = FALSE
    /\ env \in Envs
    /\ pc = "idle"
    /\ stage = 0
    /\ local = NoLocal
    /\ trace = << >>
    /\ result = "none"
    /\ hist = NoHist
    /\ ev = "none"
    /\ InvIdle
    /\ DAIdle
    /\ NSIdle
    /\ OptIdle
    /\ HooksIdle
    /\ WatchIdle

NextNS ==
    \/ \E i \in TwoInstances : BeginReconcileFor(i)
    \/ \E i \in TwoInstances : SetManagedNamespacesFor(i)
    \/ \E i \in TwoInstances : SetManagedSourceNamespacesFor(i)
    \/ \E i \in TwoInstances : ReconcileResourcesFor(i)
    \/ \E i \in TwoInstances : ChangeSourceNamespaces(i)

SpecNS == InitNS /\ [][NextNS]_vars

\* Two Instances, their workers and one namespace that may be handed to
\* either of them by its managed-by label.
NextManaged ==
    \/ \E i \in TwoInstances : BeginReconcileFor(i)
    \/ \E i \in TwoInstances : SetManagedNamespacesFor(i)
    \/ \E i \in TwoInstances : SetManagedSourceNamespacesFor(i)
    \/ \E i \in TwoInstances : ReconcileResourcesFor(i)
    \/ ChangeManagedBy

SpecManaged == InitNS /\ [][NextManaged]_vars

-----------------------------------------------------------------------------
(* The hook registry: Register and applyReconcilerHook *)

\* The hooks somebody may register, the longest list the model follows and
\* the lists one call of Register may be given (h ...Hook).
HookIds == {"h1", "h2"}
MaxHooks == 3
HookLists == {<<a>> : a \in HookIds}
                \cup {<<a, b>> : a \in HookIds, b \in HookIds}

\* The arguments of one call of applyReconcilerHook (cr, i, hint).
HookArgs == [cr : TwoInstances, i : {"desired"}, hint : {"", "hint"}]

\* One call of a hook: v(cr, i, hint), and whether it returned nil.
HookCall(v, a, ok) == [hook |-> v, args |-> a, ok |-> ok]

\* s is a prefix of t.
IsPrefix(s, t) == Len(s) <= Len(t) /\ SubSeq(t, 1, Len(s)) = s

\* The hooks that calls of Register waiting at mutex.Lock() will append.
RECURSIVE Waiting(_)
Waiting(G) ==
    IF G = {} THEN 0
    ELSE LET g == CHOOSE x \in G : TRUE
         IN (IF thr[g].op = "Register" /\ thr[g].pc = "Lock"
             THEN Len(thr[g].h) ELSE 0) + Waiting(G \ {g})

\* A mutex that the goroutine holding it may lock again.
LockGrantedToHolder(holder, g) == holder \in {"none", g}

\* mutex.Lock() of goroutine g returns: sync.RWMutex grants the lock when
\* nobody holds it, the caller included.
LockGranted(holder, g) == holder = "none"

\* What the body of a hook may do: return nil, return an error, or call
\* Register or applyReconcilerHook.
HookBodies == {"nil", "err", "Register", "applyReconcilerHook"}

\* The positions of a goroutine inside a hook that called Register or
\* applyReconcilerHook: at the mutex.Lock() of that call.
ReentryPositions == {"v.Register.Lock", "v.applyReconcilerHook.Lock"}

\* A goroutine calls Register(h...).
CallRegister(g) ==
    /\ thr[g].pc = "idle"
    /\ \E h \in HookLists :
         /\ Len(registered) + Waiting(Goroutines) + Len(h) <= MaxHooks
         /\ thr' = [thr EXCEPT ![g] =
                [NoHookCall EXCEPT !.pc = "Lock", !.op = "Register", !.h = h]]
    /\ UNCHANGED <<hooks, mutex, registered>>
    /\ UNCHANGED notHookVars

\* Register, mutex.Lock() (hooks.go 19).
RegisterLock(g) ==
    /\ thr[g].op = "Register"
    /\ thr[g].pc = "Lock"
    /\ LockGranted(mutex, g)
    /\ mutex' = g
    /\ registered' = registered \o thr[g].h
    /\ thr' = [thr EXCEPT ![g].pc = "append"]
    /\ UNCHANGED hooks
    /\ UNCHANGED notHookVars

\* Register, hooks = append(hooks, h...) (hooks.go 21): the list grows by
\* the hooks of h one after the other, in the order of the arguments.
RegisterAppend(g) ==
    /\ thr[g].op = "Register"
    /\ thr[g].pc = "append"
    /\ hooks' = Append(hooks, Head(thr[g].h))
    /\ thr' = [thr EXCEPT ![g].h = Tail(thr[g].h),
                          ![g].pc = IF Len(thr[g].h) = 1 THEN "Unlock"
                                    ELSE "append"]
    /\ UNCHANGED <<mutex, registered>>
    /\ UNCHANGED notHookVars

\* The deferred mutex.Unlock() of Register and of applyReconcilerHook
\* (hooks.go 20, 27), and the return.
Unlock(g) ==
    /\ thr[g].pc = "Unlock"
    /\ mutex' = "none"
    /\ thr' = [thr EXCEPT ![g].pc = "idle"]
    /\ UNCHANGED <<hooks, registered>>
    /\ UNCHANGED notHookVars

\* A goroutine calls applyReconcilerHook(cr, i, hint).
CallApplyReconcilerHook(g) ==
    /\ thr[g].pc = "idle"
    /\ \E a \in HookArgs :
         thr' = [thr EXCEPT ![g] =
            [NoHookCall EXCEPT !.pc = "Lock", !.op = "applyReconcilerHook",
                               !.args = a]]
    /\ UNCHANGED <<hooks, mutex, registered>>
    /\ UNCHANGED notHookVars

\* applyReconcilerHook going into the loop without mutex.Lock().
ApplyLockNotTaken(g) ==
    /\ thr[g].op = "applyReconcilerHook"
    /\ thr[g].pc = "Lock"
    /\ thr' = [thr EXCEPT ![g].pc = "range", ![g].seen = hooks,
                          ![g].reg = registered]
    /\ UNCHANGED <<hooks, mutex, registered>>
    /\ UNCHANGED notHookVars

\* applyReconcilerHook, mutex.Lock() (hooks.go 26); seen and reg keep the
\* list and the registrations as they are at that moment.
ApplyLock(g) ==
    /\ thr[g].op = "applyReconcilerHook"
    /\ thr[g].pc = "Lock"
    /\ LockGranted(mutex, g)
    /\ mutex' = g
    /\ thr' = [thr EXCEPT ![g].pc = "range", ![g].seen = hooks,
                          ![g].reg = registered]
    /\ UNCHANGED <<hooks, registered>>
    /\ UNCHANGED notHookVars

\* applyReconcilerHook, range hooks (hooks.go 28): the range expression is
\* evaluated once, before the first iteration.
ApplyRange(g) ==
    /\ thr[g].op = "applyReconcilerHook"
    /\ thr[g].pc = "range"
    /\ thr' = [thr EXCEPT ![g].ranged = hooks,
                          ![g].pc = IF hooks = << >> THEN "Unlock" ELSE "v",
                          ![g].ret = IF hooks = << >> THEN "nil" ELSE "none"]
    /\ UNCHANGED <<hooks, mutex, registered>>
    /\ UNCHANGED notHookVars

\* ApplyHook with the error of a hook dropped and the loop going on.
ApplyHookErrorDropped(g) ==
    /\ thr[g].op = "applyReconcilerHook"
    /\ thr[g].pc = "v"
    /\ LET n == Len(thr[g].log) + 1
           last == n = Len(thr[g].ranged)
       IN \E ok \in BOOLEAN :
            thr' = [thr EXCEPT
               ![g].log = Append(thr[g].log,
                             HookCall(thr[g].ranged[n], thr[g].args, ok)),
               ![g].ret = IF last THEN "nil" ELSE "none",
               ![g].pc = IF last THEN "Unlock" ELSE "v"]
    /\ UNCHANGED <<hooks, mutex, registered>>
    /\ UNCHANGED notHookVars

\* applyReconcilerHook, one iteration (hooks.go 28-32): the next hook of
\* the list is called with cr, i and hint; its error is returned; after the
\* last hook nil is returned (hooks.go 33). A hook whose body calls Register
\* or applyReconcilerHook comes to the mutex.Lock() of that call (hooks.go
\* 19, 26) and returns nil once the lock was granted and the call is over.
ApplyHook(g) ==
    /\ thr[g].op = "applyReconcilerHook"
    /\ thr[g].pc \in {"v"} \cup ReentryPositions
    /\ LET n == Len(thr[g].log) + 1
           last == n = Len(thr[g].ranged)
           returns(ok) ==
              [thr EXCEPT
                 ![g].log = Append(thr[g].log,
                               HookCall(thr[g].ranged[n], thr[g].args, ok)),
                 ![g].ret = IF ~ok THEN "err" ELSE IF last THEN "nil"
                            ELSE "none",
                 ![g].pc = IF ~ok \/ last THEN "Unlock" ELSE "v"]
       IN IF thr[g].pc = "v"
          THEN \E body \in HookBodies :
                 thr' = IF body \in {"nil", "err"} THEN returns(body = "nil")
                        ELSE [thr EXCEPT ![g].pc = "v." \o body \o ".Lock"]
          ELSE /\ LockGranted(mutex, g)
               /\ thr' = returns(TRUE)
    /\ UNCHANGED <<hooks, mutex, registered>>
    /\ UNCHANGED notHookVars

InitHooks ==
    /\ cr = NoInstance
    /\ res = {}
    /\ clusterRes = FALSE
    /\ env = [disableDex |-> FALSE]
    /\ pc = "idle"
    /\ stage = 0
    /\ local = NoLocal
    /\ trace = << >>
    /\ result = "none"
    /\ hist = NoHist
    /\ ev = "none"
    /\ InvIdle
    /\ DAIdle
    /\ NSIdle
    /\ OptIdle
    /\ HooksIdle
    /\ WatchIdle

NextHooks ==
    \/ \E g \in Goroutines : CallRegister(g)
    \/ \E g \in Goroutines : RegisterLock(g)
    \/ \E g \in Goroutines : RegisterAppend(g)
    \/ \E g \in Goroutines : CallApplyReconcilerHook(g)
    \/ \E g \in Goroutines : ApplyLock(g)
    \/ \E g \in Goroutines : ApplyRange(g)
    \/ \E g \in Goroutines : ApplyHook(g)
    \/ \E g \in Goroutines : Unlock(g)

SpecHooks == InitHooks /\ [][NextHooks]_vars

-----------------------------------------------------------------------------
(* The watch on DeploymentConfigs: deploymentConfigPred *)

\* The name of the DeploymentConfig of Keycloak.
defaultKeycloakIdentifier == "keycloak"

\* The largest number of available replicas that is followed.
MaxReplicas == 4

Replicas == 0..MaxReplicas

\* The objects an update event may be about: DeploymentConfigs, and objects
\* of another type, for which the type assertion of the predicate fails.
WatchedObjects ==
    [type : {"DeploymentConfig", "Deployment"},
     name : {defaultKeycloakIdentifier, "other"},
     availableReplicas : Replicas]

\* UpdateFunc of deploymentConfigPred for the event with the objects oldDC
\* and newDC: result is what it returns (true lets the event through to
\* the work queue), handle says whether it calls handleKeycloakPodDeletion.
deploymentConfigPred(oldDC, newDC) ==
    LET count == 1
    IN IF newDC.type # "DeploymentConfig" \/ oldDC.type # "DeploymentConfig"
       THEN [result |-> FALSE, handle |-> FALSE]
       ELSE IF newDC.name # defaultKeycloakIdentifier
       THEN [result |-> FALSE, handle |-> FALSE]
       ELSE IF newDC.availableReplicas = count
       THEN [result |-> TRUE, handle |-> FALSE]
       ELSE [result |-> FALSE,
             handle |-> /\ newDC.availableReplicas = 0
                        /\ oldDC.availableReplicas # newDC.availableReplicas]

\* The object is updated in the cluster: its number of available replicas
\* becomes n (which may be the number it had: an update of another field).
\* The update event is delivered and deploymentConfigPred runs on it;
\* the error of handleKeycloakPodDeletion (ok is FALSE) is logged.
UpdateDeploymentConfig ==
    \E n \in Replicas : \E ok \in BOOLEAN :
       LET newDC == [deploymentConfig EXCEPT !.availableReplicas = n]
           p == deploymentConfigPred(deploymentConfig, newDC)
       IN /\ deploymentConfig' = newDC
          /\ updateEvent' = [old |-> deploymentConfig.availableReplicas,
                             new |-> n,
                             result |-> p.result,
                             handled |-> IF ~p.handle THEN "none"
                                         ELSE IF ok THEN "ok" ELSE "failed",
                             delivered |-> TRUE]
          /\ queued' = (queued \/ p.result)
          /\ UNCHANGED notWatchVars

\* A worker takes the reconcile request from the work queue.
Dequeue ==
    /\ queued
    /\ queued' = FALSE
    /\ UNCHANGED <<deploymentConfig, updateEvent>>
    /\ UNCHANGED notWatchVars

InitWatch ==
    /\ cr = NoInstance
    /\ res = {}
    /\ clusterRes = FALSE
    /\ env = [disableDex |-> FALSE]
    /\ pc = "idle"
    /\ stage = 0
    /\ local = NoLocal
    /\ trace = << >>
    /\ result = "none"
    /\ hist = NoHist
    /\ ev = "none"
    /\ InvIdle
    /\ DAIdle
    /\ NSIdle
    /\ OptIdle
    /\ HooksIdle
    /\ deploymentConfig \in WatchedObjects
    /\ updateEvent = NoEvent
    /\ queued = FALSE

NextWatch ==
    \/ UpdateDeploymentConfig
    \/ Dequeue

SpecWatch == InitWatch /\ [][NextWatch]_vars

-----------------------------------------------------------------------------
(* Properties of Reconcile: finalizer lifecycle and teardown *)

TeardownSteps == {"deleteClusterResources", "removeManagedByLabelFromNamespaces",
                  "removeUnmanagedSourceNamespaceResources"}

ManagedSteps == {"setManagedNamespaces", "setManagedSourceNamespaces"}
                    \cup {Stages[i] : i \in 1..NStages} \cup {"remainingStages"}

\* The calls of the invocation so far, whatever their outcome.
Called(t) == {t[i].step : i \in 1..Len(t)}

\* The invocation found the deletion timestamp set on the Instance it fetched.
SawDeletion(t) == "GetDeletionTimestamp" \in Calls(t, "set")

\* C1: the finalizer is removed (removeDeletionFinalizer is reached) only
\* after deleteClusterResources, removeManagedByLabelFromNamespaces (when
\* label removal is enabled) and removeUnmanagedSourceNamespaceResources
\* all succeeded in the same invocation; when one of them fails the
\* invocation returns an error and the finalizer is still on the Instance.
C1_FinalizerRemovedOnlyAfterTeardown ==
    /\ (pc = "removeDeletionFinalizer"
          \/ "removeDeletionFinalizer" \in Called(trace))
       => /\ "deleteClusterResources" \in Succeeded(trace)
          /\ "removeManagedByLabelFromNamespaces"
                 \in Succeeded(trace) \cup Calls(trace, "disabled")
          /\ "removeUnmanagedSourceNamespaceResources" \in Succeeded(trace)
    /\ (TeardownSteps \cap Failed(trace) # {})
       => /\ pc = "done"
          /\ result = "err"
          /\ cr.exists /\ cr.finalizer
          /\ "removeDeletionFinalizer" \notin Called(trace)

\* C1 witness: an invocation took the finalizer off after the three
\* teardown steps, label removal enabled.
C1_Witness ==
    /\ pc = "done"
    /\ "removeDeletionFinalizer" \in Succeeded(trace)
    /\ "removeManagedByLabelFromNamespaces" \in Succeeded(trace)
    /\ ~cr.finalizer

\* C2 as stated: an Instance whose deletion timestamp was set before the
\* finalizer was ever added is not removed before teardown has completed.
C2_NeverRemovedBeforeTeardown ==
    (hist.removed /\ ~hist.everFinalizer) => hist.teardownDone

\* C2 amended: an Instance on which the finalizer was persisted is never
\* removed before an invocation completed the teardown.
C2_RemovedAfterTeardownIfFinalizer ==
    (hist.removed /\ hist.everFinalizer) => hist.teardownDone

\* C2 witness: an Instance that had the finalizer was removed, after teardown.
C2_Witness == hist.removed /\ hist.everFinalizer /\ hist.teardownDone

\* C3: when the first Get returns not-found, Reconcile returns success
\* having made no other call and no write; any other Get error is returned,
\* also with no other call and no write.
C3_FetchFailureIsNoOp ==
    [][(pc = "idle" /\ pc' = "done" /\ trace'[1].out # "ok")
         => /\ Len(trace') = 1
            /\ result' = (IF trace'[1].out = "notfound" THEN "ok" ELSE "err")
            /\ cr' = cr /\ res' = res /\ clusterRes' = clusterRes]_vars

\* C3 witness: an invocation for an Instance that was removed did not find
\* it and has returned.
C3_Witness ==
    /\ pc = "done"
    /\ trace = << Entry("Get", "notfound") >>
    /\ result = "ok"
    /\ hist.removed

\* C4: the managed namespaces are computed and the pipeline stages run only
\* with the finalizer persisted on the Instance; when adding the finalizer
\* fails the invocation returns the error and none of them has run.
C4_FinalizerBeforePipeline ==
    /\ (pc \in {"setManagedNamespaces", "setManagedSourceNamespaces",
                "reconcileResources"} \/ ManagedSteps \cap Called(trace) # {})
       => /\ cr.exists /\ cr.finalizer
          /\ hist.everFinalizer
    /\ "addDeletionFinalizer" \in Failed(trace)
       => /\ pc = "done"
          /\ result = "err"
          /\ ManagedSteps \cap Called(trace) = {}

\* C4 witness: a stage runs in the invocation that added the finalizer.
C4_Witness ==
    /\ pc = "reconcileResources"
    /\ "addDeletionFinalizer" \in Succeeded(trace)
    /\ "reconcileSSO" \in Called(trace)

\* C5 as stated: an invocation that found the deletion timestamp set
\* returns success and has called none of setManagedNamespaces,
\* setManagedSourceNamespaces, reconcileResources.
C5_DeletingReturnsSuccess ==
    (pc = "done" /\ SawDeletion(trace))
       => /\ result = "ok"
          /\ ManagedSteps \cap Called(trace) = {}

\* C5 amended: an invocation that found the deletion timestamp set calls
\* none of setManagedNamespaces, setManagedSourceNamespaces,
\* reconcileResources, with or without the finalizer; it returns success
\* unless a teardown step or the removal of the finalizer failed, and then
\* it returns that error.
C5_DeletingSkipsPipeline ==
    SawDeletion(trace)
       => /\ ManagedSteps \cap Called(trace) = {}
          /\ pc \in {"deleteClusterResources",
                     "removeManagedByLabelFromNamespaces",
                     "removeUnmanagedSourceNamespaceResources",
                     "removeDeletionFinalizer", "done"}
          /\ pc = "done"
               => (result = "ok" <=> Failed(trace) = {})
          /\ Failed(trace) \subseteq TeardownSteps \cup {"removeDeletionFinalizer"}

\* C5 witness: an invocation on a deleting Instance without the finalizer
\* has returned success, having made no call.
C5_Witness ==
    /\ pc = "done"
    /\ SawDeletion(trace)
    /\ ~local.finalizer
    /\ result = "ok"
    /\ Called(trace) = {"Get", "GetDeletionTimestamp"}

-----------------------------------------------------------------------------
(* Properties of the provider state machine *)

\* The invocation reads the Instance as the last Spec.SSO update left it,
\* and that update came between invocations: it was of one of the kinds.
CycleAfter(kinds) ==
    /\ pc \in {"reconcileResources", "done"}
    /\ ev \in kinds
    /\ "reconcileSSO" \in Succeeded(trace)

\* C8: in an invocation on an Instance that requests both providers, the
\* provider stage ends with an error and no call of the invocation, the
\* provider stage or a later one, creates or deletes a provider resource.
C8_BothProvidersNoMutation ==
    [][(pc = "reconcileResources" /\ local.sso = SSOBoth /\ trace' # trace)
         => /\ res' = res
            /\ Stages[stage] = "reconcileSSO"
                 => trace'[Len(trace')] = Entry("reconcileSSO", "err")]_vars

\* C37: reconcileSSO is the first call of reconcileResources, and when it
\* reports an illegal configuration (both providers) reconcileResources
\* returns: no stage is called after it in that run, so that none creates
\* resources of Dex.
C37_IllegalSSOReturnsAtOnce ==
    [][(pc = "reconcileResources" /\ local.sso = SSOBoth
           /\ Entry("reconcileSSO", "err") \in {trace[k] : k \in 1..Len(trace)})
          => trace' = trace]_vars

C25_NoWorkDuringReconcile ==
    [][(deleteSSOPred /\ (cr'.sso = SSONil \/ cr.sso # SSONil))
          => pc \in {"idle", "done"}]_vars

\* The stage reconcileRoleBindings has run and succeeded.
RoleBindingsReconciled ==
    /\ pc = "reconcileResources"
    /\ trace' = Append(trace, Entry("reconcileRoleBindings", "ok"))

AfterRefetch ==
    {"setManagedNamespaces", "setManagedSourceNamespaces"}
       \cup {Stages[k] : k \in 1..NStages}

\* C39: when the Instance is gone at the second Get of an invocation, the
\* invocation returns the not-found error and has called neither
\* setManagedNamespaces, setManagedSourceNamespaces nor any stage.
C39_GoneAtRefetchReturnsError ==
    (Len(trace) > 1 /\ trace[Len(trace)] = Entry("Get", "notfound"))
       => /\ pc = "done"
          /\ result = "err"
          /\ \A k \in 1..Len(trace) : trace[k].step \notin AfterRefetch

\* C39 witness: an invocation fetched the Instance, found the finalizer to
\* add, did not find the Instance at the second Get and returned.
C39_Witness ==
    /\ pc = "done"
    /\ result = "err"
    /\ Len(trace) > 2
    /\ trace[1] = Entry("Get", "ok")
    /\ trace[Len(trace)] = Entry("Get", "notfound")
    /\ ~cr.exists

\* C40: an Instance that is being deleted and has the finalizer loses the
\* finalizer in the end, the worker going on and no teardown step failing
\* for ever; and an invocation that fetches the Instance without the
\* finalizer after that, or finds it gone, returns success with no call
\* but the Get and the test of the deletion timestamp: it writes nothing.
C40_TeardownCompletes ==
    /\ (cr.exists /\ cr.deleting /\ cr.finalizer)
          ~> ~(cr.exists /\ cr.finalizer)
    /\ []((pc # "idle" /\ trace[1] = Entry("Get", "ok")
              /\ local.deleting /\ ~local.finalizer)
            => /\ trace = FetchTests(local)
               /\ pc = "done"
               /\ result = "ok")
    /\ []((pc # "idle" /\ trace[1] = Entry("Get", "notfound"))
            => /\ Len(trace) = 1
               /\ pc = "done"
               /\ result = "ok")

\* C40 witness: teardown failed in one invocation and was completed by a
\* later one, and an invocation after that found the Instance, without
\* the finalizer, still there and returned.
C40_Witness ==
    /\ pc = "done"
    /\ result = "ok"
    /\ hist.teardownDone
    /\ cr.exists
    /\ cr.deleting
    /\ ~cr.finalizer
    /\ trace = FetchTests(local)
    /\ ~clusterRes

\* A step of the worker inside an invocation.
WorkerStep == pc \notin {"idle", "done"} /\ <<pc, stage>>' # <<pc, stage>>

\* C27: once the context of an invocation is cancelled, no step of the
\* invocation writes to the cluster, and the invocation returns an error.
C27_CancelledInvocationAborts ==
    [][(WorkerStep /\ ctx = "cancelled")
          => /\ UNCHANGED <<cr, res, clusterRes>>
             /\ pc' = "done" => result' = "err"]_vars

\* Where the worker stands in teardown.
TeardownPositions == TeardownSteps \cup {"removeDeletionFinalizer"}

\* Other Instances of the cluster, with the namespaces they live in.
OtherInstances == [sibling |-> Namespace, foreign |-> "other"]

\* C28 as stated: a teardown step leaves the tracker entry of every other
\* Instance as it was.
C28_OtherInstancesKeepEntry ==
    [][(WorkerStep /\ pc \in TeardownPositions)
          => \A x \in DOMAIN OtherInstances :
                (OtherInstances[x] \in DeprecationEventEmissionTracker')
                   <=> (OtherInstances[x] \in DeprecationEventEmissionTracker)
      ]_vars

\* C28: the invocation that removes the finalizer leaves the tracker
\* without an entry for the namespace of the Instance; a teardown step or a
\* finalizer removal that fails leaves the tracker unchanged; the entries
\* of all other namespaces are unchanged in both cases.
C28_TrackerClearedForNamespace ==
    [][(WorkerStep /\ pc \in TeardownPositions)
          => /\ (pc' = "done" /\ result' = "ok")
                   => /\ ~cr'.finalizer
                      /\ Namespace \notin DeprecationEventEmissionTracker'
             /\ (pc' = "done" /\ result' = "err")
                   => UNCHANGED DeprecationEventEmissionTracker
             /\ DeprecationEventEmissionTracker' \ {Namespace}
                   = DeprecationEventEmissionTracker \ {Namespace}]_vars

\* C28 witness: teardown has completed and the finalizer is removed; the
\* tracker has no entry for the namespace of the Instance and still has the
\* entry of the other namespace.
C28_Witness ==
    /\ pc = "done"
    /\ result = "ok"
    /\ "removeDeletionFinalizer" \in Succeeded(trace)
    /\ ~cr.finalizer
    /\ DeprecationEventEmissionTracker = {"other"}

-----------------------------------------------------------------------------
(* Properties of Diff & Apply *)

\* The stored object has the desired values in the fields its reconciler
\* compares.
Converged ==
    /\ obj.exists
    /\ ~Differ(kind, obj, Desired(kind, inst))

\* C6: a call of reconServiceMonitor that succeeds creates the
\* ServiceMonitor when there was none; with the ServiceMonitor there, the
\* Instance unchanged and no change from outside since the last call that
\* succeeded, it writes nothing; and the stored labels and spec equal the
\* desired ones after each call, until the next change.
C6_ReconServiceMonitorIdempotent ==
    (call.kind = "ServiceMonitor" /\ ~call.err)
       => /\ (call.did = "create") <=> ~call.before
          /\ (call.before /\ call.clean) => call.did = "none"
          /\ ~dirty => Converged

\* C6 witness: a call found the ServiceMonitor that an earlier call had
\* created, nothing changed since, and wrote nothing.
C6_Witness ==
    /\ call.kind = "ServiceMonitor"
    /\ ~call.err
    /\ call.before /\ call.clean
    /\ call.did = "none"
    /\ ~dirty
    /\ Converged

\* C7: a reconcile call that found the object with a compared field
\* different from the desired value, and succeeded, has updated it, and the
\* compared fields have the desired values (until the next change).
C7_DriftConverges ==
    (call.kind \in Kinds /\ ~call.err /\ call.differed)
       => /\ call.did = "update"
          /\ ~dirty => Converged

\* C7 witness: a call found a ServiceMonitor changed from outside and
\* restored its labels and spec, leaving the annotation somebody had put.
C7_Witness ==
    /\ call.kind = "ServiceMonitor"
    /\ ~call.err
    /\ call.differed
    /\ call.did = "update"
    /\ ~dirty
    /\ Converged
    /\ obj.annotations = "user"

\* C20: when a mutation fails while RequestServiceMonitor builds the desired
\* object, reconServiceMonitor returns the error, issues no create and no
\* update, and the object in the cluster is as it was.
C20_HookAbortNoWrite ==
    /\ []((call.kind = "ServiceMonitor" /\ ~call.built)
             => (call.did = "none" /\ call.err))
    /\ [][(ReconcileMetricsServiceMonitor /\ ~call'.built)
             => obj' = obj]_vars

\* C20 witness: a call for a ServiceMonitor that is not in the cluster
\* failed to build the desired object and created nothing.
C20_Witness ==
    /\ call.kind = "ServiceMonitor"
    /\ ~call.built
    /\ ~call.before
    /\ ~obj.exists
    /\ call.err

\* C21 as stated: the error the caller of reconServiceMonitor receives
\* when a mutation failed is the error of the mutation itself.
C21_HookErrorUnchanged ==
    (call.kind = "ServiceMonitor" /\ ~call.built)
        => call.error = MutationError

\* C21: when a mutation failed, the caller of reconServiceMonitor receives a
\* new error that wraps the error of the mutation: its message is that of
\* reconServiceMonitor and its cause is the error of the mutation.
C21_HookErrorWrapped ==
    (call.kind = "ServiceMonitor" /\ ~call.built)
        => /\ call.err
           /\ call.error # MutationError
           /\ Len(call.error) = 2
           /\ call.error[1] =
                 "reconcileServiceMonitor: failed to request ServiceMonitor"
           /\ Cause(call.error) = MutationError

\* C21 witness: a call for a ServiceMonitor whose mutation failed has
\* returned an error with the mutation's error as its cause.
C21_Witness ==
    /\ call.kind = "ServiceMonitor"
    /\ ~call.built
    /\ call.err
    /\ Cause(call.error) = MutationError

\* C22: every object a reconciler has created carries an owner reference
\* to an Instance, and none is created when the owner reference was not
\* set.
C22_CreatedObjectsOwned ==
    (kind \in {"ServiceMonitor", "RolloutsRoleBinding"} \cup RolloutsKinds
        /\ obj.exists)
        => obj.owner \in Instances

\* C23: a reconcile call whose fetch of the existing object failed returns
\* an error and has made no write.
C23_FetchErrorReturned ==
    (call.kind \in AllKinds /\ call.built /\ ~call.got)
        => (call.err /\ call.did = "none")

\* C24 as stated: deleteServiceMonitor returns success when there is no
\* ServiceMonitor, returns the error of a delete that failed otherwise, and
\* after a call that returned success there is no ServiceMonitor.
C24_DeletedAfterSuccess ==
    [][DeleteMetricsServiceMonitor
         => /\ (call'.got /\ ~obj.exists) => ~call'.err
            /\ ~call'.got => call'.err
            /\ ~call'.err => ~obj'.exists]_vars

\* C24: with the Prometheus API flagged available, deleteServiceMonitor
\* returns success when there is no ServiceMonitor, returns the wrapped
\* error of a delete that failed otherwise and leaves the object, and after
\* a call that returned success there is no ServiceMonitor; with the API
\* flagged unavailable it returns success and makes no delete.
C24_DeletedUnlessFlaggedUnavailable ==
    [][DeleteMetricsServiceMonitor
         => /\ call'.prometheus = "available"
                 => /\ (call'.got /\ ~obj.exists)
                          => (~call'.err /\ call'.did = "none")
                    /\ ~call'.got
                          => /\ call'.err
                             /\ Cause(call'.error) = APIError
                             /\ obj' = obj
                    /\ ~call'.err => ~obj'.exists
            /\ call'.prometheus = "unavailable"
                 => (~call'.err /\ call'.did = "none" /\ obj' = obj)]_vars

\* C24 witness: a call of deleteServiceMonitor with the API flagged
\* available has deleted the ServiceMonitor that was there.
C24_Witness ==
    /\ call.kind = "deleteServiceMonitor"
    /\ call.prometheus = "available"
    /\ call.before
    /\ ~call.err
    /\ call.did = "delete"
    /\ ~obj.exists

\* A call of reconcileServerIngress or reconcileServerGRPCIngress.
ReconcileIngress == ReconcileServerIngress \/ ReconcileServerGRPCIngress

\* C29: a call of reconcileServerIngress or reconcileServerGRPCIngress that
\* succeeds creates the ingress when the toggle is on and there is none,
\* updates an ingress whose class name or annotations differ from the
\* Instance's to those values (no class name included), deletes the ingress
\* when the toggle is off, and leaves an ingress exactly when the toggle is
\* on.
C29_IngressFollowsToggle ==
    [][(ReconcileIngress /\ ~call'.err)
          => /\ obj'.exists <=> inst.ingress.enabled
             /\ inst.ingress.enabled
                   => /\ obj'.ingressClassName = inst.ingress.ingressClassName
                      /\ obj'.annotations = inst.ingress.annotations
             /\ (inst.ingress.enabled /\ ~obj.exists) => call'.did = "create"
             /\ (inst.ingress.enabled /\ obj.exists
                    /\ Differ(kind, obj, Desired(kind, inst)))
                   => call'.did = "update"
             /\ (~inst.ingress.enabled /\ obj.exists)
                   => call'.did = "delete"]_vars

\* C29 witness: a call has updated the ingress that had the class name
\* nginx to an Instance that asks for no class name and an annotation.
C29_Witness ==
    /\ kind \in IngressKinds
    /\ call.kind = kind
    /\ call.did = "update"
    /\ ~call.err
    /\ inst.ingress.enabled
    /\ inst.ingress.ingressClassName = "nil"
    /\ obj.exists
    /\ obj.ingressClassName = "nil"
    /\ obj.annotations = "example.com=test"

\* C32: with Spec.Rollouts nil, a call of reconcileRolloutsService that
\* returned success made no create, and the Service of the Rollouts
\* controller does not exist after it, whether or not one existed before.
C32_DisabledRolloutsServiceAbsent ==
    (/\ kind = "RolloutsService"
     /\ call.kind = kind
     /\ ~call.err
     /\ ~dirty
     /\ inst.rollouts = "nil")
       => /\ ~obj.exists
          /\ call.did \in {"none", "delete"}

\* C33: a call of reconcileRolloutsDeployment that fetched a Deployment
\* equal to the desired one in every compared field makes no write; the
\* call after the one that created the Deployment, nothing having changed
\* in between, is such a call.
C33_EqualDeploymentNotUpdated ==
    (/\ kind = "RolloutsDeployment"
     /\ call.kind = kind
     /\ call.before
     /\ call.got
     /\ ~call.differed)
       => call.did = "none"

\* C34: a call of reconcileRolloutsRole or reconcileRolloutsRoleBinding
\* that fetched an object which has the desired rules, or the desired role
\* reference and subjects, makes no write: the second of two calls with
\* nothing changed in between is a no-op.
C34_EqualRoleAndBindingNotWritten ==
    (/\ kind \in {"RolloutsRole", "RolloutsRoleBinding"}
     /\ call.kind = kind
     /\ call.before
     /\ call.got
     /\ ~call.differed)
       => call.did = "none"

\* The stored Service o differs from the Service the reconciler of
\* Instance i asks for at most in the metadata that the server sets.
OnlyServerManagedDiffers(o, i) ==
    /\ o.exists
    /\ o.labels = Desired(kind, i).labels
    /\ o.annotations = Desired(kind, i).annotations
    /\ o.owner = i
    /\ o.spec = Desired(kind, i).spec

\* C35: a call of reconcileService or reconcileHAProxyService (its API
\* calls succeeding) that finds a Service which differs from the desired
\* one only in resource version, UID and creation timestamp issues no
\* Update, and the Update it issues for a Service whose spec differs stores
\* the desired spec.
C35_ServerManagedFieldsNotCompared ==
    [][\A panics \in BOOLEAN : \A api \in APIOutcomes :
          (/\ kind \in RedisServiceKinds
           /\ api.request /\ api.owner /\ api.get
           /\ RedisServiceCall(panics, api))
             => /\ OnlyServerManagedDiffers(obj, inst) => call'.did = "none"
                /\ (obj.exists /\ call'.did = "update")
                      => obj'.spec = Desired(kind, inst).spec]_vars

-----------------------------------------------------------------------------
(* Properties of the source-namespace tracker *)

C26_PipelineReadsOwnSets ==
    \A i \in TwoInstances :
       wpc[i] = "reconcileResources"
          => /\ ManagedNamespaces = computed[i].managed
             /\ ManagedSourceNamespaces = computed[i].source

\* C30: an invocation that returns success leaves the role binding of
\* the Instance in the Instance's own namespace and in every namespace that
\* carried the managed-by label for the Instance when the invocation
\* computed the managed namespaces.
C30_RoleBindingInManagedNamespaces ==
    [][\A i \in TwoInstances :
         (wpc[i] = "reconcileResources" /\ returned'[i] = "ok")
            => /\ i \in roleBinding'[i]
               /\ computed[i].managed \subseteq roleBinding'[i]]_vars

-----------------------------------------------------------------------------
(* Properties of the stage pipeline *)

\* Where x stands in the sequence order.
Position(order, x) == CHOOSE i \in 1..Len(order) : order[i] = x

\* The calls of t that are stages of order were made in that order, each
\* at most once.
InOrder(order, t) ==
    \A j, k \in 1..Len(t) :
       (j < k /\ \E m \in 1..Len(order) : order[m] = t[j].step)
          => \A n \in 1..Len(order) :
                order[n] = t[k].step
                   => Position(order, t[j].step) < n

\* C12 as stated: the stages of an invocation run in the order provider,
\* status, RBAC, trust material, configuration, network exposure
\* (services, ingresses, routes), workloads (deployments, stateful sets,
\* autoscalers), optional components.
C12_NetworkBeforeWorkloads == InOrder(StagesNetworkFirst, trace)

\* The order of the amended C12.
WorkloadsBeforeIngresses ==
    << "reconcileSSO", "reconcileStatus",
       "reconcileRoles", "reconcileRoleBindings", "reconcileServiceAccounts",
       "reconcileCertificateAuthority", "reconcileSecrets",
       "reconcileConfigMaps",
       "reconcileServices",
       "reconcileDeployments", "reconcileStatefulSets", "reconcileAutoscalers",
       "reconcileIngresses", "reconcileRoutes",
       "reconcilePrometheus", "reconcilePrometheusRule",
       "reconcileMetricsServiceMonitor", "reconcileRepoServerServiceMonitor",
       "reconcileServerMetricsServiceMonitor",
       "reconcileApplicationSetController", "reconcileNotificationsController",
       "reconcileRepoServerTLSSecret", "reconcileRedisTLSSecret" >>

\* C12 amended: the stages of an invocation run in the order provider,
\* status, RBAC, trust material, configuration, services, workloads
\* (deployments, stateful sets, autoscalers), then ingresses and routes,
\* monitoring, optional components, TLS secrets.
C12_StagesInDeclaredOrder == InOrder(WorkloadsBeforeIngresses, trace)

\* C12 witness: an invocation ran every stage and returned success.
C12_Witness ==
    /\ pc = "done"
    /\ result = "ok"
    /\ \A n \in 1..Len(WorkloadsBeforeIngresses) :
          WorkloadsBeforeIngresses[n] \in Succeeded(trace)

\* The stages that no toggle and no cluster-feature flag switches off.
UngatedStages ==
    {"reconcileSSO", "reconcileStatus", "reconcileRoles",
     "reconcileRoleBindings", "reconcileServiceAccounts",
     "reconcileCertificateAuthority", "reconcileSecrets",
     "reconcileConfigMaps", "reconcileServices", "reconcileDeployments",
     "reconcileStatefulSets", "reconcileAutoscalers", "reconcileIngresses",
     "reconcileRepoServerTLSSecret", "reconcileRedisTLSSecret"}

\* The stage s failed and the pipeline went on: the next stage is called,
\* an error is returned only when another stage than those of logged
\* failed, and success is returned only after the stages were called.
LoggedAndContinued(s, next, logged) ==
    s \in Failed(trace)
       => /\ pc \in {"reconcileResources", "done"}
          /\ next \in Called(trace)
               \/ (pc = "reconcileResources" /\ Stages[stage] = next)
          /\ (pc = "done" /\ result = "err") => Failed(trace) \ logged # {}
          /\ (pc = "done" /\ result = "ok")
               => UngatedStages \subseteq Called(trace)

Aborted(s) ==
    s \in Failed(trace)
       => /\ pc = "done"
          /\ result = "err"
          /\ trace[Len(trace)] = Entry(s, "err")

\* C14: an error of an RBAC stage or of a workload stage ends the
\* invocation: no later stage runs and Reconcile returns an error.
C14_FatalStageAborts ==
    \A s \in {"reconcileRoles", "reconcileRoleBindings",
              "reconcileServiceAccounts", "reconcileDeployments",
              "reconcileStatefulSets", "reconcileAutoscalers"} : Aborted(s)

\* C14 witness: the stateful-set stage failed after the stages before it.
C14_Witness ==
    /\ pc = "done"
    /\ result = "err"
    /\ "reconcileStatefulSets" \in Failed(trace)
    /\ "reconcileDeployments" \in Succeeded(trace)

\* C15: a failure of status projection is logged; the later stages still
\* run and the invocation returns success unless a later stage fails.
C15_StatusErrorLoggedOnly ==
    LoggedAndContinued("reconcileStatus", "reconcileRoles",
                       {"reconcileSSO", "reconcileStatus"})

\* C15 witness: status projection failed, every other stage ran, and the
\* invocation returned success.
C15_Witness ==
    /\ pc = "done"
    /\ result = "ok"
    /\ Failed(trace) = {"reconcileStatus"}
    /\ "reconcileRedisTLSSecret" \in Succeeded(trace)

MonitoringStages ==
    {"reconcilePrometheus", "reconcilePrometheusRule",
     "reconcileMetricsServiceMonitor", "reconcileRepoServerServiceMonitor",
     "reconcileServerMetricsServiceMonitor"}

Asked(c, o) == IF c = ApplicationSet THEN o.appset ELSE o.notifications

\* C17: after a pipeline run that succeeded, none of the resources of a
\* component that the Instance does not ask for remain.
C17_DisabledComponentDeleted ==
    (pc = "done" /\ result = "ok"
        /\ "reconcileRedisTLSSecret" \in Succeeded(trace))
       => \A c \in Components : ~Asked(c, opt) => c \notin compRes

-----------------------------------------------------------------------------
(* Properties of the watch on DeploymentConfigs *)

\* The last update event was about the DeploymentConfig of Keycloak.
KeycloakEvent ==
    /\ deploymentConfig.type = "DeploymentConfig"
    /\ deploymentConfig.name = defaultKeycloakIdentifier

\* C36: deploymentConfigPred lets an update event through exactly when the
\* object is the DeploymentConfig of Keycloak and its number of available
\* replicas went from zero to non-zero or from non-zero to zero (an update
\* that leaves the number as it was is dropped), and it calls the
\* pod-deletion handler exactly when the number went to zero.
C36_PredicatePassesThresholdCrossings ==
    updateEvent.delivered
       => /\ updateEvent.result
               <=> /\ KeycloakEvent
                   /\ (updateEvent.old = 0) # (updateEvent.new = 0)
          /\ updateEvent.handled # "none"
               <=> /\ KeycloakEvent
                   /\ updateEvent.new = 0
                   /\ updateEvent.old # 0

-----------------------------------------------------------------------------
(* Properties of the hook registry *)

\* The hooks that the calls of l went to, in the order of the calls.
HooksOf(l) == [k \in 1..Len(l) |-> l[k].hook]

\* C18: applyReconcilerHook calls the hooks in the order of registration
\* (the order of the Register calls, and of the arguments within one call),
\* each with the cr, i and hint it was given; the first hook that returns
\* an error ends the iteration and its error is returned; nil is returned
\* only after every hook registered when the call began was called.
C18_HooksInRegistrationOrder ==
    \A g \in Goroutines :
       thr[g].op = "applyReconcilerHook"
          => LET l == thr[g].log
             IN /\ IsPrefix(HooksOf(l), registered)
                /\ \A k \in 1..Len(l) : l[k].args = thr[g].args
                /\ \A k \in 1..Len(l) :
                      ~l[k].ok => /\ k = Len(l)
                                  /\ thr[g].pc \in {"Unlock", "idle"}
                                  /\ thr[g].ret = "err"
                /\ thr[g].ret = "nil" => HooksOf(l) = thr[g].reg

\* C18 witness: three hooks are registered, by more than one hook list; an
\* invocation called the first, then the second, which failed, and has
\* returned the error without a call of the third.
C18_Witness ==
    \E g \in Goroutines :
       /\ thr[g].op = "applyReconcilerHook"
       /\ thr[g].pc = "idle"
       /\ thr[g].ret = "err"
       /\ Len(thr[g].reg) = 3
       /\ Len(thr[g].log) = 2
       /\ thr[g].log[1].hook # thr[g].log[2].hook

\* C19: the list is read and written only by the goroutine that holds the
\* lock; an invocation iterates the list as it was when the invocation got
\* the lock, which holds every hook of every Register call that got the
\* lock before it and no other; hooks in the list keep their place.
C19_ListOnlyUnderLock ==
    /\ [](\A g \in Goroutines :
             /\ thr[g].pc \in {"append", "range", "v", "Unlock"}
                   => mutex = g
             /\ (thr[g].op = "applyReconcilerHook"
                    /\ thr[g].pc \in {"v", "Unlock", "idle"})
                   => /\ thr[g].ranged = thr[g].seen
                      /\ thr[g].ranged = thr[g].reg)
    /\ [][IsPrefix(hooks, hooks')]_vars

\* C19 witness: a Register call holds the lock and has appended a part of
\* what was registered, while a call of applyReconcilerHook by the other
\* goroutine waits for the lock.
C19_Witness ==
    \E g, u \in Goroutines :
       /\ thr[g].op = "Register"
       /\ thr[g].pc = "append"
       /\ hooks # << >>
       /\ Len(hooks) < Len(registered)
       /\ thr[u].op = "applyReconcilerHook"
       /\ thr[u].pc = "Lock"

\* C38: applyReconcilerHook holds the lock while it iterates, and the lock
\* is not reentrant: a goroutine whose hook called Register or
\* applyReconcilerHook holds the lock and stays where it is, at the
\* mutex.Lock() of that call, in every step; the invocation of
\* applyReconcilerHook it is in does not return.
C38_ReenteringHookBlocksForever ==
    /\ [](\A g \in Goroutines :
             thr[g].pc \in ReentryPositions => mutex = g)
    /\ [][\A g \in Goroutines :
             thr[g].pc \in ReentryPositions
                => /\ thr'[g] = thr[g]
                   /\ mutex' = g]_vars

\* C38 witness: of two registered hooks the first returned nil and the
\* second called Register; the goroutine is at the mutex.Lock() of that
\* call, holding the lock, and the other goroutine waits for the lock in
\* a call of its own.
C38_Witness ==
    \E g, u \in Goroutines :
       /\ thr[g].op = "applyReconcilerHook"
       /\ thr[g].pc = "v.Register.Lock"
       /\ mutex = g
       /\ Len(thr[g].ranged) = 2
       /\ Len(thr[g].log) = 1
       /\ thr[g].log[1].ok
       /\ thr[u].pc = "Lock"

=============================================================================
